---- MODULE Spec2Model ----
(***************************************************************************)
(* A model of decoded-imagesize (src/main.go): the format walkers that     *)
(* read PNG chunks, JPEG markers, ISO-BMFF boxes and the WebP header, the  *)
(* bytes-per-pixel table, and the aggregator that turns one file into one  *)
(* ImageInfo record (analyzeImage, estimateDecodedSize, the batch worker). *)
(*                                                                         *)
(* Go's int is taken to be 64 bits wide (the Dockerfile builds for the     *)
(* host's linux platform).  TLC's integers are 32 bits wide, so a uint32   *)
(* read from the stream is kept as two 16-bit halves and an int64 as its   *)
(* eight bytes.                                                            *)
(***************************************************************************)
EXTENDS Integers, Sequences, FiniteSets, TLC

VARIABLES
    pc,     \* control point of the operation that is running
    data,   \* the bytes behind the io.ReadSeeker the walkers read
    w,      \* the running walker's frame: cursor, locals, return value
    file,   \* the file handed to the aggregator, with the environment's answers
    imageInfo,   \* the ImageInfo being computed on
    out     \* what the operation returned

vars == <<pc, data, w, file, imageInfo, out>>

\* The value of a variable the running specification does not use.
Unused == "unused"

(***************************************************************************)
(* Bytes and fixed-width integers                                          *)
(***************************************************************************)

Min(a, b) == IF a < b THEN a ELSE b

Max(a, b) == IF a > b THEN a ELSE b

\* binary.BigEndian.Uint16
Uint16(b) == b[1] * 256 + b[2]

\* binary.BigEndian.Uint32, as its high and low 16-bit halves
Uint32(b) == [hi |-> b[1] * 256 + b[2], lo |-> b[3] * 256 + b[4]]

\* A uint32 below 2^31 as a number.
U32Small(x) == x.hi < 32768

U32Int(x) == x.hi * 65536 + x.lo

\* x < n and x > n for a uint32 x and a number n < 2^31
U32Less(x, n) == U32Small(x) /\ U32Int(x) < n

U32Greater(x, n) == ~U32Small(x) \/ U32Int(x) > n

\* The big-endian bytes of n (0 <= n < 2^31), as binary.Write stores them.
BE16(n) == <<(n \div 256) % 256, n % 256>>

BE32(n) == <<(n \div 16777216) % 256, (n \div 65536) % 256, (n \div 256) % 256, n % 256>>

(***************************************************************************)
(* The enumerations (iota constants) and their labels                      *)
(***************************************************************************)

ColorModelUnknown == 0
ColorModelRGB == 1
ColorModelYCbCr == 2
ColorModelGrayscale == 3
ColorModelIndexed == 4

ColorSpaceUnknown == 0
ColorSpaceSRGB == 1
ColorSpaceAdobeRGB == 2
ColorSpaceBT709 == 3
ColorSpaceBT2020 == 4
ColorSpaceDisplayP3 == 5

HDRNone == 0
HDRPQ == 1
HDRHLG == 2
HDRLimited == 3

ChromaSubsamplingNA == 0
ChromaSubsampling444 == 1
ChromaSubsampling422 == 2
ChromaSubsampling420 == 3
ChromaSubsamplingUnknown == 4

CompressionUnknown == 0
CompressionLossless == 1
CompressionLossy == 2
CompressionHybrid == 3

(***************************************************************************)
(* calculateBytesPerPixel                                                  *)
(***************************************************************************)

\* A plausible slip: the README's 2 bytes per pixel for subsampled YCbCr.
calculateBytesPerPixelSubsampled(i) ==
    LET bytesPerChannel == (i.BitDepth + 7) \div 8 IN
    CASE i.ColorModel = ColorModelGrayscale ->
            IF i.HasAlpha THEN 2 * bytesPerChannel ELSE bytesPerChannel
      [] i.ColorModel = ColorModelIndexed -> 1
      [] i.ColorModel = ColorModelRGB ->
            IF i.HasAlpha THEN 4 * bytesPerChannel ELSE 3 * bytesPerChannel
      [] i.ColorModel = ColorModelYCbCr ->
            IF i.ChromaSubsampling \in {ChromaSubsampling422, ChromaSubsampling420}
            THEN 2 * bytesPerChannel ELSE 3 * bytesPerChannel
      [] OTHER -> 4

calculateBytesPerPixel(i) ==
    LET bytesPerChannel == (i.BitDepth + 7) \div 8 IN
    CASE i.ColorModel = ColorModelGrayscale ->
            IF i.HasAlpha THEN 2 * bytesPerChannel ELSE bytesPerChannel
      [] i.ColorModel = ColorModelIndexed -> 1
      [] i.ColorModel = ColorModelRGB ->
            IF i.HasAlpha THEN 4 * bytesPerChannel ELSE 3 * bytesPerChannel
      [] i.ColorModel = ColorModelYCbCr -> 3 * bytesPerChannel
      [] OTHER -> 4

\* The largest bit depth the table is exercised on.
MaxBitDepth == 16

ColorModels ==
    {ColorModelUnknown, ColorModelRGB, ColorModelYCbCr, ColorModelGrayscale,
     ColorModelIndexed}

Subsamplings ==
    {ChromaSubsamplingNA, ChromaSubsampling444, ChromaSubsampling422,
     ChromaSubsampling420, ChromaSubsamplingUnknown}

\* The ImageInfo values TestCalculateBytesPerPixel builds, for every field value.
BppInputs ==
    [ColorModel : ColorModels, BitDepth : 1..MaxBitDepth, HasAlpha : BOOLEAN,
     ChromaSubsampling : Subsamplings]

InitBpp ==
    /\ pc = "start"
    /\ imageInfo \in BppInputs
    /\ out = Unused
    /\ data = Unused
    /\ w = Unused
    /\ file = Unused

\* bpp := calculateBytesPerPixel(info)
CalcBpp ==
    /\ pc = "start"
    /\ out' = calculateBytesPerPixel(imageInfo)
    /\ pc' = "done"
    /\ UNCHANGED <<data, w, file, imageInfo>>

NextBpp == CalcBpp

SpecBpp == InitBpp /\ [][NextBpp]_vars

\* ceil(bitDepth / 8): the least k with 8k >= bitDepth
CeilDiv8(bitDepth) == CHOOSE k \in 0..bitDepth : 8 * k >= bitDepth /\ 8 * (k - 1) < bitDepth

\* The table of the claim, written out per colour model.
BppTable(i) ==
    LET bytesPerChannel == CeilDiv8(i.BitDepth) IN
    IF i.ColorModel = ColorModelGrayscale /\ ~i.HasAlpha THEN bytesPerChannel
    ELSE IF i.ColorModel = ColorModelGrayscale THEN 2 * bytesPerChannel
    ELSE IF i.ColorModel = ColorModelIndexed THEN 1
    ELSE IF i.ColorModel = ColorModelRGB /\ ~i.HasAlpha THEN 3 * bytesPerChannel
    ELSE IF i.ColorModel = ColorModelRGB THEN 4 * bytesPerChannel
    ELSE IF i.ColorModel = ColorModelYCbCr THEN 3 * bytesPerChannel
    ELSE 4

ReadOK(d, pos, n) == n = 0 \/ (pos >= 0 /\ pos + n <= Len(d))

\* The n bytes io.ReadFull stores.
ReadBytes(d, pos, n) == SubSeq(d, pos + 1, pos + n)

\* The cursor after an io.ReadFull that failed: what was left has been consumed.
AfterFailedRead(d, pos) == Max(pos, Len(d))

\* A slip: the 2 bytes of the length field are taken off the distance once more.
SeekCurrentLessTwo(pos, delta) == IF pos + delta - 2 < 0 THEN pos ELSE pos + delta - 2

\* r.Seek(delta, io.SeekCurrent): a negative target is refused and the cursor stays.
SeekCurrent(pos, delta) == IF pos + delta < 0 THEN pos ELSE pos + delta

\* bytes.Contains
Contains(s, sub) ==
    \E i \in 0..(Len(s) - Len(sub)) : SubSeq(s, i + 1, i + Len(sub)) = sub

\* A walker's frame returning v, and one that panicked.
Return(s, p, v) == [s EXCEPT !.pc = "return", !.pos = p, !.ret = v]

Panic(s, p) == [s EXCEPT !.pc = "panic", !.pos = p]

WalkerFrame(fn, pos) == [fn |-> fn, pc |-> "entry", pos |-> pos, ret |-> Unused]

Running(s) == s.pc \notin {"return", "panic"}

(***************************************************************************)
(* detectColorSpaceFromICC                                                 *)
(***************************************************************************)

TextDisplayP3 == <<68, 105, 115, 112, 108, 97, 121, 32, 80, 51>>
TextP3 == <<80, 51>>
TextBT2020 == <<66, 84, 46, 50, 48, 50, 48>>
TextRec2020 == <<82, 101, 99, 46, 32, 50, 48, 50, 48>>
TextBT709 == <<66, 84, 46, 55, 48, 57>>
TextRec709 == <<82, 101, 99, 46, 32, 55, 48, 57>>
TextAdobeRGB == <<65, 100, 111, 98, 101, 32, 82, 71, 66>>

\* A slip: "Adobe RGB" tested first.
detectColorSpaceFromICCAdobeFirst(iccData) ==
    IF Len(iccData) < 128 THEN "sRGB"
    ELSE IF Contains(iccData, TextAdobeRGB) THEN "Adobe RGB"
    ELSE IF Contains(iccData, TextDisplayP3) \/ Contains(iccData, TextP3) THEN "Display P3"
    ELSE IF Contains(iccData, TextBT2020) \/ Contains(iccData, TextRec2020) THEN "BT.2020"
    ELSE IF Contains(iccData, TextBT709) \/ Contains(iccData, TextRec709) THEN "BT.709"
    ELSE "sRGB (ICC)"

detectColorSpaceFromICC(iccData) ==
    IF Len(iccData) < 128 THEN "sRGB"
    ELSE IF Contains(iccData, TextDisplayP3) \/ Contains(iccData, TextP3) THEN "Display P3"
    ELSE IF Contains(iccData, TextBT2020) \/ Contains(iccData, TextRec2020) THEN "BT.2020"
    ELSE IF Contains(iccData, TextBT709) \/ Contains(iccData, TextRec709) THEN "BT.709"
    ELSE IF Contains(iccData, TextAdobeRGB) THEN "Adobe RGB"
    ELSE "sRGB (ICC)"

(***************************************************************************)
(* The JPEG marker walkers.  Each operator is one pass of the walker's     *)
(* loop (the SOI check on entry), from the frame s over the bytes d.       *)
(***************************************************************************)

\* The marker bytes the walkers compare against.
IsSOF(marker) == marker = 192 \/ marker = 193 \/ marker = 194

MarkerEOI == 217

MarkerAPP2 == 226

\* "ICC_PROFILE\x00"
TextICCProfile == <<73, 67, 67, 95, 80, 82, 79, 70, 73, 76, 69, 0>>

\* A slip: no seek to 0, the two bytes are read where the cursor is.
JPEGEntryWithoutSeek(d, s, dflt) ==
    IF ~ReadOK(d, s.pos, 2) THEN Return(s, AfterFailedRead(d, s.pos), dflt)
    ELSE IF ReadBytes(d, s.pos, 2) # <<255, 216>> THEN Return(s, s.pos + 2, dflt)
    ELSE [s EXCEPT !.pc = "loop", !.pos = s.pos + 2]

\* The check of the first two bytes, shared by the three walkers: seek to 0,
\* read 2 bytes, require FF D8.  dflt is the walker's default return value.
JPEGEntry(d, s, dflt) ==
    IF ~ReadOK(d, 0, 2) THEN Return(s, AfterFailedRead(d, 0), dflt)
    ELSE LET buf == ReadBytes(d, 0, 2) IN
         IF buf[1] # 255 \/ buf[2] # 216 THEN Return(s, 2, dflt)
         ELSE [s EXCEPT !.pc = "loop", !.pos = 2]

\* fmt.Sprintf("Custom (%dx%d:%dx%d)", yH, yV, cbH, cbV)
CustomLabel(yH, yV, cbH, cbV) ==
    "Custom (" \o ToString(yH) \o "x" \o ToString(yV) \o ":"
               \o ToString(cbH) \o "x" \o ToString(cbV) \o ")"

\* A slip: three components still taken for grayscale.
SubsamplingOfSOFGrayUpTo3(sofData) ==
    IF Len(sofData) < 6 THEN "Unknown"
    ELSE IF sofData[6] <= 3 THEN "Grayscale"
    ELSE IF Len(sofData) < 6 + sofData[6] * 3 THEN "Unknown"
    ELSE CustomLabel((sofData[8] \div 16) % 16, sofData[8] % 16,
                     (sofData[11] \div 16) % 16, sofData[11] % 16)

\* The label of a fully read SOF body sofData.
SubsamplingOfSOF(sofData) ==
    IF Len(sofData) < 6 THEN "Unknown"
    ELSE LET numComponents == sofData[6] IN
         IF numComponents < 3 THEN "Grayscale"
         ELSE IF Len(sofData) < 6 + numComponents * 3 THEN "Unknown"
         ELSE LET ySample == sofData[8]
                  cbSample == sofData[11]
                  yH == (ySample \div 16) % 16
                  yV == ySample % 16
                  cbH == (cbSample \div 16) % 16
                  cbV == cbSample % 16
              IN IF yH = 1 /\ yV = 1 /\ cbH = 1 /\ cbV = 1 THEN "4:4:4"
                 ELSE IF yH = 2 /\ yV = 1 /\ cbH = 1 /\ cbV = 1 THEN "4:2:2"
                 ELSE IF yH = 2 /\ yV = 2 /\ cbH = 1 /\ cbV = 1 THEN "4:2:0"
                 ELSE CustomLabel(yH, yV, cbH, cbV)

\* make([]byte, n) panics for a negative n.
MakePanics(n) == n < 0

detectJPEGSubsamplingStep(d, s) ==
    IF s.pc = "entry" THEN JPEGEntry(d, s, "Unknown")
    ELSE IF ~ReadOK(d, s.pos, 2) THEN Return(s, AfterFailedRead(d, s.pos), "Unknown")
    ELSE LET buf == ReadBytes(d, s.pos, 2)
             p1 == s.pos + 2
             marker == buf[2]
         IN
         IF buf[1] # 255 THEN Return(s, p1, "Unknown")
         ELSE IF IsSOF(marker) THEN
            IF ~ReadOK(d, p1, 2) THEN Return(s, AfterFailedRead(d, p1), "Unknown")
            ELSE LET length == Uint16(ReadBytes(d, p1, 2))
                     p2 == p1 + 2
                 IN
                 IF MakePanics(length - 2) THEN Panic(s, p2)
                 ELSE IF ~ReadOK(d, p2, length - 2)
                      THEN Return(s, AfterFailedRead(d, p2), "Unknown")
                 ELSE Return(s, p2 + length - 2,
                             SubsamplingOfSOF(ReadBytes(d, p2, length - 2)))
         ELSE IF marker = MarkerEOI THEN Return(s, p1, "Unknown")
         ELSE IF ~ReadOK(d, p1, 2) THEN Return(s, AfterFailedRead(d, p1), "Unknown")
         ELSE LET length == Uint16(ReadBytes(d, p1, 2)) - 2 IN
              [s EXCEPT !.pos = SeekCurrent(p1 + 2, length)]

\* The shared tail of is12BitJPEG's loop: EOI ends the walk, any other marker
\* is skipped by its length field.
Is12BitSkip(d, s, marker, p) ==
    IF marker = MarkerEOI THEN Return(s, p, FALSE)
    ELSE IF ~ReadOK(d, p, 2) THEN Return(s, AfterFailedRead(d, p), FALSE)
    ELSE LET length == Uint16(ReadBytes(d, p, 2)) - 2 IN
         [s EXCEPT !.pos = SeekCurrent(p + 2, length)]

is12BitJPEGStep(d, s) ==
    IF s.pc = "entry" THEN JPEGEntry(d, s, FALSE)
    ELSE IF ~ReadOK(d, s.pos, 2) THEN Return(s, AfterFailedRead(d, s.pos), FALSE)
    ELSE LET buf == ReadBytes(d, s.pos, 2)
             p1 == s.pos + 2
             marker == buf[2]
         IN
         IF buf[1] # 255 THEN Return(s, p1, FALSE)
         ELSE IF IsSOF(marker) THEN
            IF ~ReadOK(d, p1, 2) THEN Return(s, AfterFailedRead(d, p1), FALSE)
            ELSE LET length == Uint16(ReadBytes(d, p1, 2))
                     p2 == p1 + 2
                 IN
                 IF MakePanics(length - 2) THEN Panic(s, p2)
                 ELSE IF ~ReadOK(d, p2, length - 2)
                      THEN Return(s, AfterFailedRead(d, p2), FALSE)
                 ELSE IF length - 2 > 0
                      THEN Return(s, p2 + length - 2, ReadBytes(d, p2, length - 2)[1] = 12)
                 \* an empty SOF body falls through to the generic skip
                 ELSE Is12BitSkip(d, s, marker, p2)
         ELSE Is12BitSkip(d, s, marker, p1)

NoProfile == [nil |-> TRUE, icc |-> <<>>, colorSpace |-> "sRGB"]

\* data[14:] of the APP2 body: a slice whose low bound exceeds len(data) panics.
ICCPayload(s, p, body) ==
    IF 14 > Len(body) THEN Panic(s, p)
    ELSE LET icc == SubSeq(body, 15, Len(body)) IN
         Return(s, p, [nil |-> FALSE, icc |-> icc,
                       colorSpace |-> detectColorSpaceFromICC(icc)])

detectJPEGICCProfileStep(d, s) ==
    IF s.pc = "entry" THEN JPEGEntry(d, s, NoProfile)
    ELSE IF ~ReadOK(d, s.pos, 2) THEN Return(s, AfterFailedRead(d, s.pos), NoProfile)
    ELSE LET buf == ReadBytes(d, s.pos, 2)
             p1 == s.pos + 2
             marker == buf[2]
         IN
         IF buf[1] # 255 THEN Return(s, p1, NoProfile)
         ELSE IF marker = MarkerEOI THEN Return(s, p1, NoProfile)
         ELSE IF ~ReadOK(d, p1, 2) THEN Return(s, AfterFailedRead(d, p1), NoProfile)
         ELSE LET length == Uint16(ReadBytes(d, p1, 2)) - 2
                  p2 == p1 + 2
              IN
              IF marker = MarkerAPP2 THEN
                 IF MakePanics(length) THEN Panic(s, p2)
                 ELSE IF ~ReadOK(d, p2, length)
                      THEN Return(s, AfterFailedRead(d, p2), NoProfile)
                 ELSE LET body == ReadBytes(d, p2, length) IN
                      IF Len(body) > 12 /\ SubSeq(body, 1, 12) = TextICCProfile
                      THEN ICCPayload(s, p2 + length, body)
                      ELSE [s EXCEPT !.pos = p2 + length]
              ELSE [s EXCEPT !.pos = SeekCurrent(p2, length)]


(***************************************************************************)
(* JPEG streams: the segments the tests build (createJPEGWithSOFMarker,    *)
(* TestJPEGSubsampling_AllMarkers, TestJPEGICCProfile_EdgeCases), with     *)
(* every length field also declared as 0, 1 and one more than is there.    *)
(***************************************************************************)

SOI == <<255, 216>>

\* The SOF body createJPEGWithSOFMarker writes for a 100x100 image; a component
\* count other than 1 and 3 is followed by five zero bytes (InvalidNumComponents).
SOFBody(precision, numComponents, yH, yV, cbH, cbV) ==
    <<precision>> \o BE16(100) \o BE16(100) \o <<numComponents>> \o
    (IF numComponents = 1 THEN <<1, 17, 0>>
     ELSE IF numComponents = 3
          THEN <<1, yH * 16 + yV, 0, 2, cbH * 16 + cbV, 1, 3, cbH * 16 + cbV, 1>>
          ELSE <<0, 0, 0, 0, 0>>)

Segment(marker, lengthField, body) == <<255, marker>> \o BE16(lengthField) \o body

\* The length field a well-formed segment declares.
ExactLength(body) == Len(body) + 2

\* The length fields a segment is generated with.
LengthFields(body) == {0, 1, 2, ExactLength(body), ExactLength(body) + 1}

SOFBodies ==
    {SOFBody(8, 1, 1, 1, 0, 0), SOFBody(8, 3, 1, 1, 1, 1), SOFBody(8, 3, 2, 1, 1, 1),
     SOFBody(8, 3, 2, 2, 1, 1), SOFBody(8, 3, 3, 3, 1, 1), SOFBody(12, 3, 2, 2, 1, 1),
     SOFBody(8, 10, 0, 0, 0, 0), SubSeq(SOFBody(8, 3, 2, 2, 1, 1), 1, 11)}

\* "NOT_ICC_PROFILE\x00" and four zero bytes
TextNotICC == <<78, 79, 84, 95, 73, 67, 67, 95, 80, 82, 79, 70, 73, 76, 69, 0, 0, 0, 0, 0>>

APP2Bodies ==
    {TextICCProfile, TextICCProfile \o <<1>>, TextICCProfile \o <<1, 1>>,
     TextICCProfile \o <<1, 1, 0, 0>>, TextNotICC}

JPEGSegments ==
    {Segment(192, ExactLength(b), b) : b \in SOFBodies}
    \cup {Segment(m, ExactLength(SOFBody(8, 3, 2, 2, 1, 1)), SOFBody(8, 3, 2, 2, 1, 1)) :
            m \in {193, 194}}
    \cup {Segment(192, l, SOFBody(8, 3, 2, 2, 1, 1)) :
            l \in LengthFields(SOFBody(8, 3, 2, 2, 1, 1))}
    \cup {Segment(MarkerAPP2, ExactLength(b), b) : b \in APP2Bodies}
    \cup {Segment(MarkerAPP2, l, TextICCProfile \o <<1, 1>>) :
            l \in LengthFields(TextICCProfile \o <<1, 1>>)}
    \cup {Segment(224, l, <<0, 0>>) : l \in LengthFields(<<0, 0>>)}
    \cup {<<255, MarkerEOI>>, <<0, 192>>, <<255>>, <<255, 192>>, <<255, 192, 0>>,
          <<255, MarkerAPP2>>, <<255, 224, 0>>}

\* The most segments after SOI in a generated stream.
MaxSegments == 2

RECURSIVE SegmentSeqs(_)
SegmentSeqs(k) ==
    IF k = 0 THEN {<<>>}
    ELSE {<<>>} \cup {s \o t : s \in JPEGSegments, t \in SegmentSeqs(k - 1)}

\* The streams of at most k segments after SOI, and four that do not start with SOI.
JPEGStreams(k) ==
    {<<>>, <<255>>, <<0, 0>>, <<216, 255>>} \cup {SOI \o t : t \in SegmentSeqs(k)}

JPEGWalkers == {"detectJPEGSubsampling", "is12BitJPEG", "detectJPEGICCProfile"}

InitJPEG ==
    /\ pc = "walk"
    /\ data \in JPEGStreams(MaxSegments)
    /\ w \in {WalkerFrame(fn, 0) : fn \in JPEGWalkers}
    /\ file = Unused
    /\ imageInfo = Unused
    /\ out = Unused

\* Where a walker specification stands after a pass, and what it has returned.
WalkPc(next) == IF Running(next) THEN "walk" ELSE "done"

WalkOut(next) == IF next.pc = "return" THEN next.ret ELSE out

DetectJPEGSubsampling ==
    /\ pc = "walk"
    /\ w.fn = "detectJPEGSubsampling"
    /\ Running(w)
    /\ w' = detectJPEGSubsamplingStep(data, w)
    /\ pc' = WalkPc(w')
    /\ out' = WalkOut(w')
    /\ UNCHANGED <<data, file, imageInfo>>

Is12BitJPEG ==
    /\ pc = "walk"
    /\ w.fn = "is12BitJPEG"
    /\ Running(w)
    /\ w' = is12BitJPEGStep(data, w)
    /\ pc' = WalkPc(w')
    /\ out' = WalkOut(w')
    /\ UNCHANGED <<data, file, imageInfo>>

DetectJPEGICCProfile ==
    /\ pc = "walk"
    /\ w.fn = "detectJPEGICCProfile"
    /\ Running(w)
    /\ w' = detectJPEGICCProfileStep(data, w)
    /\ pc' = WalkPc(w')
    /\ out' = WalkOut(w')
    /\ UNCHANGED <<data, file, imageInfo>>

NextJPEG == DetectJPEGSubsampling \/ Is12BitJPEG \/ DetectJPEGICCProfile

SpecJPEG == InitJPEG /\ [][NextJPEG]_vars

StartsWithSOI(d) == Len(d) >= 2 /\ SubSeq(d, 1, 2) = SOI

\* The segment right after SOI is an SOF0/1/2 whose length field is 0 or 1.
FirstSOFLengthBelow2(d) ==
    /\ StartsWithSOI(d)
    /\ Len(d) >= 6
    /\ d[3] = 255
    /\ IsSOF(d[4])
    /\ Uint16(SubSeq(d, 5, 6)) < 2

SOFDefault == IF w.fn = "is12BitJPEG" THEN FALSE ELSE "Unknown"

\* C4: for every byte stream detectJPEGSubsampling and is12BitJPEG return without
\* panicking, and they return their defaults ("Unknown", false) when SOI is missing
\* and when the SOF segment's length field is 0 or 1.
C4_SOFWalkersReturnDefaults ==
    w.fn \in {"detectJPEGSubsampling", "is12BitJPEG"} =>
        /\ w.pc # "panic"
        /\ pc = "done" /\ ~StartsWithSOI(data) => w.ret = SOFDefault
        /\ pc = "done" /\ FirstSOFLengthBelow2(data) => w.ret = SOFDefault

\* The segment right after SOI is an APP2 whose length field is l.
FirstAPP2WithLength(d, l) ==
    /\ StartsWithSOI(d)
    /\ Len(d) >= 6
    /\ d[3] = 255
    /\ d[4] = MarkerAPP2
    /\ Uint16(SubSeq(d, 5, 6)) = l

\* C5: for every byte stream detectJPEGICCProfile returns without panicking; an
\* APP2 segment whose length field is below 2, and one whose body is "ICC_PROFILE\0"
\* and a 13th byte only (length field 15), yield no profile and "sRGB".
C5_ICCWalkerReturnsNoProfile ==
    w.fn = "detectJPEGICCProfile" =>
        /\ w.pc # "panic"
        /\ pc = "done" /\ (\E l \in {0, 1, 15} : FirstAPP2WithLength(data, l)) =>
               w.ret = NoProfile


(***************************************************************************)
(* The ISO-BMFF box walkers.  parseHEIFMetadata reads up to 16384 bytes    *)
(* into a buffer and walks slices of it; a slice is kept as the range      *)
(* [lo, hi) of the buffer it covers.  The walker's frame carries the call  *)
(* stack, one entry per box parser that is running, and the metadata       *)
(* record they all write to.  Each operator is one pass of one loop.       *)
(***************************************************************************)

\* make([]byte, 16384)
HeaderReadSize == 16384

TextFtyp == <<102, 116, 121, 112>>
TextMeta == <<109, 101, 116, 97>>
TextIprp == <<105, 112, 114, 112>>
TextIpco == <<105, 112, 99, 111>>
TextPixi == <<112, 105, 120, 105>>
TextColr == <<99, 111, 108, 114>>
TextAuxC == <<97, 117, 120, 67>>
TextNclx == <<110, 99, 108, 120>>

\* "urn:mpeg:mpegB:cicp:systems:auxiliary:alpha"
TextAlphaURN ==
    <<117, 114, 110, 58, 109, 112, 101, 103, 58, 109, 112, 101, 103, 66, 58, 99, 105,
      99, 112, 58, 115, 121, 115, 116, 101, 109, 115, 58, 97, 117, 120, 105, 108, 105,
      97, 114, 121, 58, 97, 108, 112, 104, 97>>

\* The heifMetadata parseHEIFMetadata starts from.
DefaultMeta ==
    [ColorModel |-> ColorModelYCbCr, HasAlpha |-> FALSE, BitDepth |-> 8,
     ColorSpace |-> ColorSpaceBT709, ChromaSubsampling |-> ChromaSubsampling420,
     HDRType |-> HDRNone]

\* A slip: the whole stream is read, as io.ReadAll would.
HeaderBytesReadWhole(d) == Len(d)

\* n, _ := r.Read(data): the bytes the one Read call stores.
HeaderBytesRead(d) == Min(Len(d), HeaderReadSize)

\* Byte i (0-based) of the buffer: what was read, then the zeroes make left there.
BufAt(d, i) == IF i < HeaderBytesRead(d) THEN d[i + 1] ELSE 0

\* Bytes [a, b) of the buffer.
BufSlice(d, a, b) ==
    IF b <= Len(d) THEN SubSeq(d, a + 1, b) ELSE [i \in 1..(b - a) |-> BufAt(d, a + i - 1)]

\* data[a:b] inside the slice f covers: Go panics when b passes the capacity (the
\* buffer's end) or a passes b; a b between the length and the capacity yields bytes
\* outside the slice the function was given.
SliceStatus(f, a, b) ==
    IF a > b \/ f.lo + b > HeaderReadSize THEN "panic"
    ELSE IF f.lo + b > f.hi THEN "outside"
    ELSE "ok"

\* data[offset+8 : offset+int(boxSize)], decided on the uint32 before it is converted.
BoxDataStatus(f, boxSize) ==
    IF U32Less(boxSize, 8) \/ U32Greater(boxSize, HeaderReadSize - f.lo - f.offset)
    THEN "panic"
    ELSE SliceStatus(f, f.offset + 8, f.offset + U32Int(boxSize))

\* A weaker check: the declared size is not compared with what is left.
BoxBreaksSizeOnly(boxSize, offset, length) == U32Less(boxSize, 8)

\* boxSize < 8 || offset+int(boxSize) > len(data)
BoxBreaks(boxSize, offset, length) ==
    U32Less(boxSize, 8) \/ U32Greater(boxSize, length - offset)

\* offset += int(boxSize).  offset is only ever compared with len(data) <= 16384, so
\* a sum beyond the buffer is kept as one past its end.
AddBoxSize(offset, boxSize) ==
    IF U32Greater(boxSize, HeaderReadSize) THEN HeaderReadSize + 1
    ELSE Min(offset + U32Int(boxSize), HeaderReadSize + 1)

\* A slip: only the low byte of the two 16-bit values is looked at.
colrCaseLowByte(meta, boxData) ==
    IF Len(boxData) >= 8 /\ SubSeq(boxData, 1, 4) = TextNclx
    THEN [meta EXCEPT !.ColorSpace = CASE boxData[6] = 1 -> ColorSpaceBT709
                                       [] boxData[6] = 9 -> ColorSpaceBT2020
                                       [] boxData[6] = 12 -> ColorSpaceDisplayP3
                                       [] OTHER -> meta.ColorSpace,
                      !.HDRType = CASE boxData[8] = 16 -> HDRPQ
                                    [] boxData[8] = 18 -> HDRHLG
                                    [] OTHER -> meta.HDRType]
    ELSE meta

\* case "colr", the same statements in parseHEIFMetadata and in parseIpcoBox
colrCase(meta, boxData) ==
    IF Len(boxData) >= 4 /\ SubSeq(boxData, 1, 4) = TextNclx /\ Len(boxData) >= 8
    THEN LET colorPrimaries == Uint16(SubSeq(boxData, 5, 6))
             transferChar == Uint16(SubSeq(boxData, 7, 8))
             colorSpace == CASE colorPrimaries = 1 -> ColorSpaceBT709
                             [] colorPrimaries = 9 -> ColorSpaceBT2020
                             [] colorPrimaries = 12 -> ColorSpaceDisplayP3
                             [] OTHER -> meta.ColorSpace
             hdrType == CASE transferChar = 16 -> HDRPQ
                          [] transferChar = 18 -> HDRHLG
                          [] OTHER -> meta.HDRType
         IN [meta EXCEPT !.ColorSpace = colorSpace, !.HDRType = hdrType]
    ELSE meta

\* A slip: the outcome of the test is assigned.
auxCCaseAssigns(meta, boxData) ==
    [meta EXCEPT !.HasAlpha = Contains(boxData, TextAlphaURN)]

\* case "auxC", the same statements in both
auxCCase(meta, boxData) ==
    IF Contains(boxData, TextAlphaURN) THEN [meta EXCEPT !.HasAlpha = TRUE] ELSE meta

\* A slip: the channel count is read as parseIpcoBox reads it.
pixiCaseTopLevelChannels(meta, boxData) ==
    IF Len(boxData) >= 3 /\ boxData[2] > 0 /\ Len(boxData) >= 2 + boxData[2]
    THEN [meta EXCEPT !.BitDepth = boxData[3]]
    ELSE meta

\* case "pixi" of parseHEIFMetadata
pixiCaseTopLevel(meta, boxData) ==
    IF Len(boxData) >= 3 THEN [meta EXCEPT !.BitDepth = boxData[3]] ELSE meta

\* case "pixi" of parseIpcoBox
pixiCaseIpco(meta, boxData) ==
    IF Len(boxData) >= 3
    THEN LET numChannels == boxData[2] IN
         IF numChannels > 0 /\ Len(boxData) >= 2 + numChannels
         THEN [meta EXCEPT !.BitDepth = boxData[3]]
         ELSE meta
    ELSE meta

HEIFFrame(pos) ==
    [fn |-> "parseHEIFMetadata", pc |-> "entry", pos |-> pos, ret |-> Unused,
     meta |-> DefaultMeta, stack |-> <<>>, outside |-> FALSE]

BoxFrame(fn, lo, hi, offset) == [fn |-> fn, lo |-> lo, hi |-> hi, offset |-> offset]

\* The box parser that is running.
TopFrame(s) == s.stack[Len(s.stack)]

\* The running box parser returns; parseHEIFMetadata returns meta.
ExitBox(s) ==
    IF Len(s.stack) = 1 THEN [Return(s, s.pos, s.meta) EXCEPT !.stack = <<>>]
    ELSE [s EXCEPT !.stack = SubSeq(s.stack, 1, Len(s.stack) - 1)]

\* The running parser has handled a box: meta is what the case left, offset moves on.
NextBox(s, boxSize, meta) ==
    [s EXCEPT !.meta = meta,
              !.stack[Len(s.stack)].offset = AddBoxSize(@, boxSize)]

\* The running parser calls the parser fn on boxData; its own offset moves on when
\* the call returns, which nothing reads before then.
CallBox(s, boxSize, fn, offset) ==
    LET f == TopFrame(s)
        child == BoxFrame(fn, f.lo + f.offset + 8, f.lo + f.offset + U32Int(boxSize), offset)
    IN [s EXCEPT !.stack = Append([s.stack EXCEPT ![Len(s.stack)].offset = AddBoxSize(@, boxSize)],
                                  child)]

\* A slice expression's outcome st on the frame s: a panic, or bytes outside.
Sliced(s, st, then) ==
    IF st = "panic" THEN Panic(s, s.pos)
    ELSE IF st = "outside" THEN [then EXCEPT !.outside = TRUE]
    ELSE then

\* The 8-byte box header at the running parser's offset.
BoxSizeAt(d, f) == Uint32(BufSlice(d, f.lo + f.offset, f.lo + f.offset + 4))

BoxTypeAt(d, f) == BufSlice(d, f.lo + f.offset + 4, f.lo + f.offset + 8)

BoxDataAt(d, f, boxSize) ==
    BufSlice(d, f.lo + f.offset + 8, f.lo + f.offset + U32Int(boxSize))

\* The entry of parseHEIFMetadata and one pass of its loop.
parseHEIFMetadataStep(d, s) ==
    IF s.pc = "entry" THEN
        LET n == HeaderBytesRead(d) IN
        IF n < 12 THEN Return(s, n, s.meta)
        ELSE IF BufSlice(d, 4, 8) # TextFtyp THEN Return(s, n, s.meta)
        ELSE [s EXCEPT !.pc = "loop", !.pos = n,
                       !.stack = <<BoxFrame("parseHEIFMetadata", 0, n, 0)>>]
    ELSE
        LET f == TopFrame(s)
            length == f.hi - f.lo
        IN
        IF ~(f.offset + 8 < length) THEN ExitBox(s)
        ELSE IF f.offset + 4 > length THEN ExitBox(s)
        ELSE LET read == BoxSizeAt(d, f) IN
             IF U32Less(read, 8) THEN ExitBox(s)
             ELSE IF f.offset + 8 > length THEN ExitBox(s)
             ELSE LET boxType == BoxTypeAt(d, f)
                      clamped == length - f.offset
                      boxSize == IF U32Greater(read, length - f.offset)
                                 THEN [hi |-> clamped \div 65536, lo |-> clamped % 65536]
                                 ELSE read
                      boxData == BoxDataAt(d, f, boxSize)
                      then == CASE boxType = TextMeta -> CallBox(s, boxSize, "parseMetaBox", 4)
                                [] boxType = TextPixi ->
                                       NextBox(s, boxSize, pixiCaseTopLevel(s.meta, boxData))
                                [] boxType = TextColr ->
                                       NextBox(s, boxSize, colrCase(s.meta, boxData))
                                [] boxType = TextAuxC ->
                                       NextBox(s, boxSize, auxCCase(s.meta, boxData))
                                [] OTHER -> NextBox(s, boxSize, s.meta)
                  IN Sliced(s, BoxDataStatus(f, boxSize), then)

\* One pass of parseMetaBox's loop.
parseMetaBoxStep(d, s) ==
    LET f == TopFrame(s)
        length == f.hi - f.lo
    IN
    IF ~(f.offset + 8 < length) THEN ExitBox(s)
    ELSE LET boxSize == BoxSizeAt(d, f)
             boxType == BoxTypeAt(d, f)
         IN
         IF BoxBreaks(boxSize, f.offset, length) THEN ExitBox(s)
         ELSE IF boxType = TextIprp
              THEN Sliced(s, BoxDataStatus(f, boxSize),
                          CallBox(s, boxSize, "parseIprpBox", 0))
              ELSE NextBox(s, boxSize, s.meta)

\* One pass of parseIprpBox's loop.
parseIprpBoxStep(d, s) ==
    LET f == TopFrame(s)
        length == f.hi - f.lo
    IN
    IF ~(f.offset + 8 < length) THEN ExitBox(s)
    ELSE LET boxSize == BoxSizeAt(d, f)
             boxType == BoxTypeAt(d, f)
         IN
         IF BoxBreaks(boxSize, f.offset, length) THEN ExitBox(s)
         ELSE Sliced(s, BoxDataStatus(f, boxSize),
                     IF boxType = TextIpco THEN CallBox(s, boxSize, "parseIpcoBox", 0)
                     ELSE NextBox(s, boxSize, s.meta))

\* One pass of parseIpcoBox's loop.
parseIpcoBoxStep(d, s) ==
    LET f == TopFrame(s)
        length == f.hi - f.lo
    IN
    IF ~(f.offset + 8 < length) THEN ExitBox(s)
    ELSE LET boxSize == BoxSizeAt(d, f)
             boxType == BoxTypeAt(d, f)
         IN
         IF BoxBreaks(boxSize, f.offset, length) THEN ExitBox(s)
         ELSE LET boxData == BoxDataAt(d, f, boxSize)
                  meta == CASE boxType = TextPixi -> pixiCaseIpco(s.meta, boxData)
                            [] boxType = TextColr -> colrCase(s.meta, boxData)
                            [] boxType = TextAuxC -> auxCCase(s.meta, boxData)
                            [] OTHER -> s.meta
              IN Sliced(s, BoxDataStatus(f, boxSize), NextBox(s, boxSize, meta))


(***************************************************************************)
(* ISO-BMFF streams: the boxes createMinimalHEIFMetadata writes (ftyp,     *)
(* then meta > iprp > ipco > pixi, colr, auxC) and the inputs of           *)
(* TestHEIFMetadataEdgeCases, with the size field of a box at every        *)
(* nesting level also declared too small, one short, one long and 2^32-1.  *)
(***************************************************************************)

TextHeic == <<104, 101, 105, 99>>
TextFree == <<102, 114, 101, 101>>
TextJunk == <<106, 117, 110, 107>>

\* writeBox without the length computation: size is the 4-byte size field.
Box(boxType, size, body) == size \o boxType \o body

\* The size field writeBox computes.
ExactSize(body) == BE32(Len(body) + 8)

\* The size fields a box is generated with.
SizeFields(body) ==
    {BE32(7), BE32(Len(body) + 7), ExactSize(body), BE32(Len(body) + 9),
     <<255, 255, 255, 255>>}

FtypBox == Box(TextFtyp, ExactSize(TextHeic \o BE32(0) \o TextHeic), TextHeic \o BE32(0) \o TextHeic)

PixiBody(bitDepth) == <<0, 3, bitDepth, bitDepth, bitDepth>>

ColrBody(colorPrimaries, transferChar) ==
    TextNclx \o BE16(colorPrimaries) \o BE16(transferChar) \o BE16(1) \o <<1>>

AuxCBody == TextAlphaURN \o <<0>>

PropertyBoxes ==
    {Box(TextPixi, size, PixiBody(10)) :
        size \in {BE32(7), ExactSize(PixiBody(10)), BE32(14), <<255, 255, 255, 255>>}}
    \cup {Box(TextColr, ExactSize(ColrBody(9, 16)), ColrBody(9, 16)),
          Box(TextAuxC, ExactSize(AuxCBody), AuxCBody),
          Box(TextFree, ExactSize(<<0, 0>>), <<0, 0>>)}

\* The most boxes side by side in a generated container.
MaxBoxes == 2

RECURSIVE BoxSeqs(_)
BoxSeqs(k) ==
    IF k = 0 THEN {<<>>}
    ELSE {<<>>} \cup {b \o t : b \in PropertyBoxes, t \in BoxSeqs(k - 1)}

IpcoBoxes(k) ==
    UNION {{Box(TextIpco, size, body) : size \in SizeFields(body)} : body \in BoxSeqs(k)}

IprpBoxes(k) ==
    UNION {{Box(TextIprp, size, body) : size \in SizeFields(body)} : body \in IpcoBoxes(k)}

\* The meta box: four zero bytes (version and flags), then iprp.
MetaBoxes(k) ==
    UNION {{Box(TextMeta, size, BE32(0) \o body) : size \in SizeFields(BE32(0) \o body)} :
             body \in IprpBoxes(k)}

\* The 16-byte ftyp box TestHEIFMetadataEdgeCases writes.
ShortFtypBox == BE32(16) \o TextFtyp \o TextHeic \o BE32(0)

\* The inputs of TestHEIFMetadataEdgeCases ("short", a first box that is not ftyp,
\* a meta box declaring 0, 4, 10000 and 20 bytes), and ftyp cut after 11 and 12 bytes.
EdgeCaseStreams ==
    {<<>>, <<115, 104, 111, 114, 116>>, BE32(12) \o TextJunk \o BE32(0),
     SubSeq(ShortFtypBox, 1, 11), SubSeq(ShortFtypBox, 1, 12),
     ShortFtypBox \o BE32(0) \o TextMeta,
     ShortFtypBox \o BE32(4) \o TextMeta,
     ShortFtypBox \o BE32(10000) \o TextMeta \o <<116, 114, 117, 110, 99, 97, 116, 101, 100>>,
     ShortFtypBox \o BE32(20) \o TextMeta \o <<100, 97, 116, 97>>}

HEIFStreams(k) ==
    {FtypBox \o m : m \in MetaBoxes(k)}
    \cup {FtypBox \o t : t \in BoxSeqs(k)}
    \cup EdgeCaseStreams

InitHEIF ==
    /\ pc = "walk"
    /\ data \in HEIFStreams(MaxBoxes)
    /\ w = HEIFFrame(0)
    /\ file = Unused
    /\ imageInfo = Unused
    /\ out = Unused

\* Which box parser's loop runs next in the frame s.
BoxParserRunning(s, fn) ==
    /\ s.fn = "parseHEIFMetadata"
    /\ Running(s)
    /\ IF s.pc = "entry" THEN fn = "parseHEIFMetadata" ELSE TopFrame(s).fn = fn

ParseHEIFMetadata ==
    /\ pc = "walk"
    /\ BoxParserRunning(w, "parseHEIFMetadata")
    /\ w' = parseHEIFMetadataStep(data, w)
    /\ pc' = WalkPc(w')
    /\ out' = WalkOut(w')
    /\ UNCHANGED <<data, file, imageInfo>>

ParseMetaBox ==
    /\ pc = "walk"
    /\ BoxParserRunning(w, "parseMetaBox")
    /\ w' = parseMetaBoxStep(data, w)
    /\ UNCHANGED <<pc, out, data, file, imageInfo>>

ParseIprpBox ==
    /\ pc = "walk"
    /\ BoxParserRunning(w, "parseIprpBox")
    /\ w' = parseIprpBoxStep(data, w)
    /\ UNCHANGED <<pc, out, data, file, imageInfo>>

ParseIpcoBox ==
    /\ pc = "walk"
    /\ BoxParserRunning(w, "parseIpcoBox")
    /\ w' = parseIpcoBoxStep(data, w)
    /\ UNCHANGED <<pc, out, data, file, imageInfo>>

NextHEIF == ParseHEIFMetadata \/ ParseMetaBox \/ ParseIprpBox \/ ParseIpcoBox

SpecHEIF == InitHEIF /\ [][NextHEIF]_vars

\* C6: for every input and every declared box size at every nesting level
\* parseHEIFMetadata, parseMetaBox, parseIprpBox and parseIpcoBox never read
\* outside the bytes they were given (no slice expression panics, none reaches past
\* the slice's length), and the result is exactly the defaults (YCbCr, no alpha,
\* 8-bit, BT.709, 4:2:0, HDR None) when fewer than 12 bytes are read or bytes 4..8
\* are not "ftyp".
C6_HEIFWalkerStaysInside ==
    w.fn = "parseHEIFMetadata" =>
        /\ w.pc # "panic"
        /\ ~w.outside
        /\ \A i \in 1..Len(w.stack) :
               /\ 0 <= w.stack[i].lo
               /\ w.stack[i].lo <= w.stack[i].hi
               /\ w.stack[i].hi <= HeaderBytesRead(data)
               /\ i > 1 => /\ w.stack[i - 1].lo <= w.stack[i].lo
                           /\ w.stack[i].hi <= w.stack[i - 1].hi
        /\ pc = "done" /\ (Len(data) < 12 \/ SubSeq(data, 5, 8) # TextFtyp) =>
               w.ret = DefaultMeta

\* C6 witness: the walk has ended on a stream whose meta box declares 2^32-1 bytes
\* and whose ipco box holds a pixi box declaring one byte too many and a colr box:
\* the clamped meta box was walked down to ipco, where only the colr box was taken.
C6_Witness ==
    /\ pc = "done"
    /\ w.fn = "parseHEIFMetadata"
    /\ Len(data) >= 75
    /\ SubSeq(data, 1, 20) = FtypBox
    /\ SubSeq(data, 21, 28) = <<255, 255, 255, 255>> \o TextMeta
    /\ SubSeq(data, 41, 48) = BE32(Len(data) - 40) \o TextIpco
    /\ SubSeq(data, 49, 56) = ExactSize(ColrBody(9, 16)) \o TextColr
    /\ SubSeq(data, 68, 75) = BE32(14) \o TextPixi
    /\ w.ret = [DefaultMeta EXCEPT !.ColorSpace = ColorSpaceBT2020, !.HDRType = HDRPQ]


(***************************************************************************)
(* The PNG chunk walkers and the WebP header check                         *)
(***************************************************************************)

TextIHDR == <<73, 72, 68, 82>>
TextICCP == <<105, 67, 67, 80>>
TextIEND == <<73, 69, 78, 68>>
TextRIFF == <<82, 73, 70, 70>>
TextWEBP == <<87, 69, 66, 80>>
TextVP8L == <<86, 80, 56, 76>>
TextVP8 == <<86, 80, 56, 32>>

\* A slip: the declared length of the first chunk is not tested.
detectPNGBitDepthAnyLength(d) ==
    IF ~ReadOK(d, 8, 8) THEN 8
    ELSE IF SubSeq(ReadBytes(d, 8, 8), 5, 8) # TextIHDR THEN 8
    ELSE IF ~ReadOK(d, 16, 13) THEN 8
    ELSE ReadBytes(d, 16, 13)[9]

detectPNGBitDepth(d) ==
    IF ~ReadOK(d, 8, 8) THEN 8
    ELSE LET buf == ReadBytes(d, 8, 8)
             length == Uint32(SubSeq(buf, 1, 4))
             chunkType == SubSeq(buf, 5, 8)
         IN
         IF chunkType # TextIHDR \/ length # [hi |-> 0, lo |-> 13] THEN 8
         ELSE IF ~ReadOK(d, 16, 13) THEN 8
         ELSE ReadBytes(d, 16, 13)[9]

\* length+4 in uint32 arithmetic
U32Plus4(x) ==
    [hi |-> (x.hi + (x.lo + 4) \div 65536) % 65536, lo |-> (x.lo + 4) % 65536]

\* r.Seek(int64(skip), 1) for a uint32 skip.  Every cursor past the end of the
\* stream reads the same (nothing), so one that far is kept as one past the end.
SeekForward(d, pos, skip) ==
    IF U32Greater(skip, Len(d) + 1) THEN Max(pos, Len(d) + 1)
    ELSE Min(pos + U32Int(skip), Max(pos, Len(d) + 1))

\* The seek to offset 8 on entry, and one pass of detectPNGICCProfile's loop.
detectPNGICCProfileStep(d, s) ==
    IF s.pc = "entry" THEN [s EXCEPT !.pc = "loop", !.pos = 8]
    ELSE IF ~ReadOK(d, s.pos, 8) THEN Return(s, AfterFailedRead(d, s.pos), NoProfile)
    ELSE LET buf == ReadBytes(d, s.pos, 8)
             p1 == s.pos + 8
             length == Uint32(SubSeq(buf, 1, 4))
             chunkType == SubSeq(buf, 5, 8)
         IN
         IF chunkType = TextICCP THEN
            \* a length the stream cannot hold fails the read
            IF ~U32Small(length) \/ ~ReadOK(d, p1, U32Int(length))
            THEN Return(s, AfterFailedRead(d, p1), NoProfile)
            ELSE LET iccData == ReadBytes(d, p1, U32Int(length)) IN
                 Return(s, p1 + U32Int(length),
                        [nil |-> FALSE, icc |-> iccData,
                         colorSpace |-> detectColorSpaceFromICC(iccData)])
         ELSE IF chunkType = TextIEND THEN Return(s, p1, NoProfile)
         ELSE [s EXCEPT !.pos = SeekForward(d, p1, U32Plus4(length))]

\* A slip: bytes 8..12 are not compared with "WEBP".
detectWebPFormatAnyForm(d) ==
    IF ~ReadOK(d, 0, 12) THEN <<FALSE, ChromaSubsamplingUnknown>>
    ELSE IF SubSeq(ReadBytes(d, 0, 12), 1, 4) # TextRIFF THEN <<FALSE, ChromaSubsamplingUnknown>>
    ELSE IF ~ReadOK(d, 12, 4) THEN <<FALSE, ChromaSubsamplingUnknown>>
    ELSE IF ReadBytes(d, 12, 4) = TextVP8L THEN <<TRUE, ChromaSubsamplingNA>>
    ELSE IF ReadBytes(d, 12, 4) = TextVP8 THEN <<FALSE, ChromaSubsampling420>>
    ELSE <<FALSE, ChromaSubsamplingUnknown>>

\* (isLossless, chromaSub)
detectWebPFormat(d) ==
    IF ~ReadOK(d, 0, 12) THEN <<FALSE, ChromaSubsamplingUnknown>>
    ELSE LET header == ReadBytes(d, 0, 12) IN
         IF SubSeq(header, 1, 4) # TextRIFF THEN <<FALSE, ChromaSubsamplingUnknown>>
         ELSE IF SubSeq(header, 9, 12) # TextWEBP THEN <<FALSE, ChromaSubsamplingUnknown>>
         ELSE IF ~ReadOK(d, 12, 4) THEN <<FALSE, ChromaSubsamplingUnknown>>
         ELSE LET fourCC == ReadBytes(d, 12, 4) IN
              IF fourCC = TextVP8L THEN <<TRUE, ChromaSubsamplingNA>>
              ELSE IF fourCC = TextVP8 THEN <<FALSE, ChromaSubsampling420>>
              ELSE <<FALSE, ChromaSubsamplingUnknown>>

(***************************************************************************)
(* A walker called by the aggregator runs to its return (or panic).        *)
(***************************************************************************)

\* One pass of whichever box parser is running.
HEIFStep(d, s) ==
    IF s.pc = "entry" \/ TopFrame(s).fn = "parseHEIFMetadata" THEN parseHEIFMetadataStep(d, s)
    ELSE IF TopFrame(s).fn = "parseMetaBox" THEN parseMetaBoxStep(d, s)
    ELSE IF TopFrame(s).fn = "parseIprpBox" THEN parseIprpBoxStep(d, s)
    ELSE parseIpcoBoxStep(d, s)

WalkerStep(d, s) ==
    CASE s.fn = "detectJPEGSubsampling" -> detectJPEGSubsamplingStep(d, s)
      [] s.fn = "is12BitJPEG" -> is12BitJPEGStep(d, s)
      [] s.fn = "detectJPEGICCProfile" -> detectJPEGICCProfileStep(d, s)
      [] s.fn = "detectPNGICCProfile" -> detectPNGICCProfileStep(d, s)
      [] s.fn = "parseHEIFMetadata" -> HEIFStep(d, s)

RECURSIVE RunWalker(_, _)
RunWalker(d, s) == IF Running(s) THEN RunWalker(d, WalkerStep(d, s)) ELSE s

\* The call fn(r) on the stream d, whatever the cursor was.
Call(fn, d) ==
    RunWalker(d, IF fn = "parseHEIFMetadata" THEN HEIFFrame(0) ELSE WalkerFrame(fn, 0))

(***************************************************************************)
(* int64 and float64.  An int64 is its eight bytes, least significant      *)
(* first, in two's complement.                                             *)
(***************************************************************************)

Int64Bytes == 8

\* int64(n) for 0 <= n < 2^31, and the same number on k bytes
Bytes(n, k) ==
    [i \in 1..k |-> CASE i = 1 -> n % 256
                      [] i = 2 -> (n \div 256) % 256
                      [] i = 3 -> (n \div 65536) % 256
                      [] i = 4 -> (n \div 16777216) % 256
                      [] OTHER -> 0]

Int64(n) == Bytes(n, Int64Bytes)

RECURSIVE ColumnSum(_, _, _, _)
\* sum of a[j] * b[i - j + 1] for j in 1..m
ColumnSum(a, b, i, m) ==
    IF m = 0 THEN 0 ELSE a[m] * b[i - m + 1] + ColumnSum(a, b, i, m - 1)

RECURSIVE MulFrom(_, _, _, _)
\* Bytes i.. of the product of a and b, carry coming in; what passes the last byte
\* is dropped.
MulFrom(a, b, i, carry) ==
    IF i > Len(a) THEN <<>>
    ELSE LET t == ColumnSum(a, b, i, i) + carry IN
         <<t % 256>> \o MulFrom(a, b, i + 1, t \div 256)

\* a * b on int64: the low 64 bits of the product
Int64Mul(a, b) == MulFrom(a, b, 1, 0)

Int64Negative(a) == a[Int64Bytes] >= 128

Int64Zero(a) == a = Int64(0)

\* float64(a) / float64(b) for an int64 a and a file size b >= 0: the quotient is
\* kept as its two operands; dividing by zero gives an infinity, 0/0 gives NaN.
Float64Div(a, b) ==
    [class |-> IF b # 0 THEN "finite"
               ELSE IF Int64Zero(a) THEN "NaN"
               ELSE IF Int64Negative(a) THEN "-Inf"
               ELSE "+Inf",
     num |-> a, den |-> b]

\* The zero value of a float64 field.
Float64Zero == [class |-> "finite", num |-> Int64(0), den |-> 1]


(***************************************************************************)
(* The aggregator: analyzeImage and the per-format analyzers.  A file is   *)
(* what the environment answers about it: whether os.Open succeeds, its    *)
(* bytes, what image.DecodeConfig returns and what os.Stat returns.  An    *)
(* analyzer yields the ImageInfo it filled, the walkers it called, and     *)
(* whether one of them panicked.                                           *)
(***************************************************************************)

Nil == "nil"

\* What new(ImageInfo) holds.
ZeroImageInfo ==
    [Format |-> "", Width |-> 0, Height |-> 0, ColorModel |-> ColorModelUnknown,
     ColorSpace |-> ColorSpaceUnknown, BitDepth |-> 0, HasAlpha |-> FALSE,
     HasICCProfile |-> FALSE, ICCProfileSize |-> 0, HDRType |-> HDRNone,
     ChromaSubsampling |-> ChromaSubsamplingNA, CompressionType |-> CompressionUnknown,
     OriginalSize |-> 0, DecodedSize |-> Int64(0), CompressionRatio |-> Float64Zero,
     Filename |-> ""]

\* (ColorModel, hasAlpha) for the image/color model the sniffer reports
mapStdColorModel(cm) ==
    CASE cm \in {"RGBA", "RGBA64", "NRGBA", "NRGBA64"} -> <<ColorModelRGB, TRUE>>
      [] cm \in {"Gray", "Gray16"} -> <<ColorModelGrayscale, FALSE>>
      [] cm \in {"Alpha", "Alpha16"} -> <<ColorModelGrayscale, TRUE>>
      [] cm = "YCbCr" -> <<ColorModelYCbCr, FALSE>>
      [] cm = "Palette" -> <<ColorModelIndexed, FALSE>>
      [] OTHER -> <<ColorModelUnknown, FALSE>>

parseColorSpace(cs) ==
    CASE cs \in {"sRGB", "sRGB (ICC)"} -> ColorSpaceSRGB
      [] cs = "Adobe RGB" -> ColorSpaceAdobeRGB
      [] cs = "BT.709" -> ColorSpaceBT709
      [] cs = "BT.2020" -> ColorSpaceBT2020
      [] cs = "Display P3" -> ColorSpaceDisplayP3
      [] OTHER -> ColorSpaceSRGB

\* What an analyzer leaves behind.
Analyzed(info, walked) == [info |-> info, walked |-> walked, panic |-> FALSE]

Panicked(walked) == [info |-> ZeroImageInfo, walked |-> walked, panic |-> TRUE]

\* A slip: the profile fields are set without the test of the profile's length.
WithICCProfileUntested(info, profile) ==
    [info EXCEPT !.HasICCProfile = TRUE, !.ICCProfileSize = Len(profile.icc),
                 !.ColorSpace = parseColorSpace(profile.colorSpace)]

\* The if len(iccProfile) > 0 ... else of analyzePNG and analyzeJPEG
WithICCProfile(info, profile) ==
    IF Len(profile.icc) > 0
    THEN [info EXCEPT !.HasICCProfile = TRUE, !.ICCProfileSize = Len(profile.icc),
                      !.ColorSpace = parseColorSpace(profile.colorSpace)]
    ELSE [info EXCEPT !.ColorSpace = ColorSpaceSRGB]

\* analyzePNG once its two walkers have returned bitDepth and profile
PNGFields(info, cm, bitDepth, profile) ==
    Analyzed(WithICCProfile([info EXCEPT !.ColorModel = cm[1], !.HasAlpha = cm[2],
                                         !.CompressionType = CompressionLossless,
                                         !.ChromaSubsampling = ChromaSubsamplingNA,
                                         !.HDRType = IF bitDepth = 16 THEN HDRLimited
                                                     ELSE HDRNone,
                                         !.BitDepth = bitDepth],
                            profile.ret),
             {"detectPNGBitDepth", "detectPNGICCProfile"})

analyzePNG(d, config, info) ==
    PNGFields(info, mapStdColorModel(config.ColorModel), detectPNGBitDepth(d),
              Call("detectPNGICCProfile", d))

\* A slip: a grayscale JPEG given the subsampling of the case above it.
JPEGSubsamplingFieldsSlip(subsampling) ==
    CASE subsampling = "4:4:4" -> <<ColorModelYCbCr, ChromaSubsampling444>>
      [] subsampling = "4:2:2" -> <<ColorModelYCbCr, ChromaSubsampling422>>
      [] subsampling = "4:2:0" -> <<ColorModelYCbCr, ChromaSubsampling420>>
      [] subsampling = "Grayscale" -> <<ColorModelGrayscale, ChromaSubsampling420>>
      [] OTHER -> <<ColorModelYCbCr, ChromaSubsamplingUnknown>>

\* switch subsampling of analyzeJPEG: (ColorModel, ChromaSubsampling)
JPEGSubsamplingFields(subsampling) ==
    CASE subsampling = "4:4:4" -> <<ColorModelYCbCr, ChromaSubsampling444>>
      [] subsampling = "4:2:2" -> <<ColorModelYCbCr, ChromaSubsampling422>>
      [] subsampling = "4:2:0" -> <<ColorModelYCbCr, ChromaSubsampling420>>
      [] subsampling = "Grayscale" -> <<ColorModelGrayscale, ChromaSubsamplingNA>>
      [] OTHER -> <<ColorModelYCbCr, ChromaSubsamplingUnknown>>

\* analyzeJPEG with its three walkers' outcomes: a panic in one ends the call there
JPEGFields(info, is12Bit, subsampling, profile) ==
    IF is12Bit.pc = "panic" THEN Panicked({"is12BitJPEG"})
    ELSE IF subsampling.pc = "panic" THEN Panicked({"is12BitJPEG", "detectJPEGSubsampling"})
    ELSE IF profile.pc = "panic"
         THEN Panicked({"is12BitJPEG", "detectJPEGSubsampling", "detectJPEGICCProfile"})
    ELSE LET fields == JPEGSubsamplingFields(subsampling.ret)
             i1 == [info EXCEPT !.CompressionType = CompressionLossy, !.HasAlpha = FALSE,
                                !.HDRType = HDRNone,
                                !.BitDepth = IF is12Bit.ret THEN 12 ELSE 8,
                                !.ColorModel = fields[1],
                                !.ChromaSubsampling = fields[2]]
         IN Analyzed(WithICCProfile(i1, profile.ret),
                     {"is12BitJPEG", "detectJPEGSubsampling", "detectJPEGICCProfile"})

analyzeJPEG(d, config, info) ==
    JPEGFields(info, Call("is12BitJPEG", d), Call("detectJPEGSubsampling", d),
               Call("detectJPEGICCProfile", d))

\* analyzeWebP once detectWebPFormat has returned (isLossless, chromaSub)
WebPFields(info, cm, isLossless, chromaSub) ==
       Analyzed([info EXCEPT !.BitDepth = 8, !.HDRType = HDRNone,
                             !.ColorModel = cm[1], !.HasAlpha = cm[2],
                             !.CompressionType =
                                 IF isLossless THEN CompressionLossless ELSE CompressionLossy,
                             !.ChromaSubsampling =
                                 IF isLossless THEN ChromaSubsamplingNA ELSE chromaSub,
                             !.ColorSpace = ColorSpaceSRGB],
                {"detectWebPFormat"})

analyzeWebP(d, config, info) ==
    WebPFields(info, mapStdColorModel(config.ColorModel), detectWebPFormat(d)[1],
               detectWebPFormat(d)[2])

\* analyzeHEIF once parseHEIFMetadata has ended in the frame walk
HEIFFields(info, walk) ==
    IF walk.pc = "panic" THEN Panicked({"parseHEIFMetadata"})
    ELSE Analyzed([info EXCEPT !.CompressionType = CompressionHybrid,
                               !.ColorModel = walk.ret.ColorModel,
                               !.HasAlpha = walk.ret.HasAlpha,
                               !.BitDepth = walk.ret.BitDepth,
                               !.ColorSpace = walk.ret.ColorSpace,
                               !.ChromaSubsampling = walk.ret.ChromaSubsampling,
                               !.HDRType = walk.ret.HDRType],
                  {"parseHEIFMetadata"})

analyzeHEIF(d, config, info) == HEIFFields(info, Call("parseHEIFMetadata", d))

\* analyzeAVIF repeats analyzeHEIF statement for statement.
analyzeAVIF(d, config, info) == analyzeHEIF(d, config, info)

\* A *ImageInfo: nil, or pointing at the record v.
NilInfo == [nil |-> TRUE, v |-> ZeroImageInfo]

Ptr(info) == [nil |-> FALSE, v |-> info]

\* What a call returns: the error (Nil for none), the *ImageInfo, the walkers that
\* ran, and whether the call panicked instead of returning.
Returned(err, info, walked) == [err |-> err, info |-> info, walked |-> walked, panic |-> FALSE]

Crashed(walked) == [err |-> Nil, info |-> NilInfo, walked |-> walked, panic |-> TRUE]

\* The analyzer analyzeImage dispatches to.
Dispatch(f, info) ==
    CASE f.cfg.format = "png" -> analyzePNG(f.bytes, f.cfg, info)
      [] f.cfg.format = "jpeg" -> analyzeJPEG(f.bytes, f.cfg, info)
      [] f.cfg.format = "webp" -> analyzeWebP(f.bytes, f.cfg, info)
      [] f.cfg.format = "heif" -> analyzeHEIF(f.bytes, f.cfg, info)
      [] f.cfg.format = "avif" -> analyzeAVIF(f.bytes, f.cfg, info)
      [] OTHER -> Analyzed([info EXCEPT !.ColorModel = ColorModelUnknown,
                                        !.ColorSpace = ColorSpaceUnknown,
                                        !.BitDepth = 8], {})

\* A slip: the sniffer's error is dropped and the zero config is dispatched on.
analyzeImageIgnoringSniffError(f) ==
    IF ~f.open THEN Returned("open", NilInfo, {})
    ELSE Returned(Nil, Ptr([ZeroImageInfo EXCEPT !.BitDepth = 8]), {})

\* return info, nil, unless the analyzer panicked
ReturnInfo(a) == IF a.panic THEN Crashed(a.walked) ELSE Returned(Nil, Ptr(a.info), a.walked)

analyzeImage(f) ==
    IF ~f.open THEN Returned("open", NilInfo, {})
    ELSE IF f.cfg.err THEN Returned("decode", NilInfo, {})
    ELSE ReturnInfo(Dispatch(f, [ZeroImageInfo EXCEPT !.Format = f.cfg.format,
                                                      !.Width = f.cfg.Width,
                                                      !.Height = f.cfg.Height]))

\* The three statements that fill the sizes, the same in estimateDecodedSize and in
\* the batch worker.
SizesSet(info, originalSize, decodedSize) ==
    [info EXCEPT !.OriginalSize = originalSize, !.DecodedSize = decodedSize,
                 !.CompressionRatio = Float64Div(decodedSize, originalSize)]

WithSizes(info, originalSize) ==
    SizesSet(info, originalSize,
             Int64Mul(Int64Mul(Int64(info.Width), Int64(info.Height)),
                      Int64(calculateBytesPerPixel(info))))

\* encoding/json refuses an infinite or NaN float64.
EncodeFails(info) == info.CompressionRatio.class # "finite"

\* The end of estimateDecodedSize: the JSON encoding may fail, printing does not.
Output(sized, jsonOutput, walked) ==
    IF jsonOutput /\ EncodeFails(sized) THEN Returned("encode", NilInfo, walked)
    ELSE Returned(Nil, Ptr(sized), walked)

\* estimateDecodedSize after a is what analyzeImage returned
Estimate(a, f, jsonOutput) ==
    IF a.panic \/ a.err # Nil THEN a
    ELSE IF f.stat.err THEN Returned("stat", NilInfo, a.walked)
    ELSE Output(WithSizes(a.info.v, f.stat.size), jsonOutput, a.walked)

estimateDecodedSize(f, jsonOutput) == Estimate(analyzeImage(f), f, jsonOutput)

\* A slip: nothing is sent for a file os.Stat fails on.
WorkerResultNilOnStatError(a, f) ==
    IF a.panic \/ a.err # Nil THEN a
    ELSE IF ~f.stat.err
         THEN Returned(Nil, Ptr([WithSizes(a.info.v, f.stat.size) EXCEPT !.Filename = f.name]),
                       a.walked)
         ELSE Returned(Nil, NilInfo, a.walked)

\* The worker after a is what analyzeImage returned: the result it sends.
WorkerResult(a, f) ==
    IF a.panic \/ a.err # Nil THEN a
    ELSE IF ~f.stat.err
         THEN Returned(Nil, Ptr([WithSizes(a.info.v, f.stat.size) EXCEPT !.Filename = f.name]),
                       a.walked)
         ELSE a

\* The body of the worker's loop for one job
batchWorker(f) == WorkerResult(analyzeImage(f), f)


(***************************************************************************)
(* The files: streams as the tests build them, each with the sniffer's     *)
(* answer for it, and what os.Stat answers when it is asked afterwards     *)
(* (the size, a size of 0, or an error: the file may be a pipe, or be      *)
(* truncated or removed between the two calls).                            *)
(***************************************************************************)

PNGSignature == <<137, 80, 78, 71, 13, 10, 26, 10>>

\* length, type, data and a CRC written as uint32(0), which no walker reads
Chunk(chunkType, body) == BE32(Len(body)) \o chunkType \o body \o BE32(0)

IHDRBody(width, height, bitDepth, colorType) ==
    BE32(width) \o BE32(height) \o <<bitDepth, colorType, 0, 0, 0>>

\* "test-icc"
TextTestICC == <<116, 101, 115, 116, 45, 105, 99, 99>>

PNGStream(width, height, bitDepth, colorType, withICC) ==
    PNGSignature \o Chunk(TextIHDR, IHDRBody(width, height, bitDepth, colorType))
    \o (IF withICC THEN Chunk(TextICCP, TextTestICC) ELSE <<>>)
    \o Chunk(TextIEND, <<>>)

\* image.Config and the format name, or the error
Config(format, width, height, colorModel) ==
    [err |-> FALSE, format |-> format, Width |-> width, Height |-> height,
     ColorModel |-> colorModel]

ConfigError == [err |-> TRUE, format |-> "", Width |-> 0, Height |-> 0, ColorModel |-> ""]

\* (bit depth, colour type, the colour model image/png reports)
PNGKinds ==
    {<<8, 6, "NRGBA">>, <<16, 6, "NRGBA64">>, <<8, 2, "RGBA">>, <<16, 2, "RGBA64">>,
     <<8, 0, "Gray">>, <<16, 0, "Gray16">>, <<1, 3, "Palette">>, <<2, 3, "Palette">>,
     <<4, 3, "Palette">>}

PNGImages ==
    {[bytes |-> PNGStream(size, size, k[1], k[2], withICC),
      cfg |-> Config("png", size, size, k[3])] :
        size \in {1, 500}, k \in PNGKinds, withICC \in BOOLEAN}

\* SOI, an optional APP2 segment, one SOF segment of a 100x100 image, EOI
JPEGImages ==
    {[bytes |-> SOI \o app2 \o Segment(sof[1], ExactLength(sof[2]), sof[2]) \o <<255, MarkerEOI>>,
      cfg |-> Config("jpeg", 100, 100, IF sof[2][6] = 1 THEN "Gray" ELSE "YCbCr")] :
        app2 \in {<<>>} \cup {Segment(MarkerAPP2, ExactLength(b), b) :
                                b \in {TextICCProfile \o <<1>>, TextICCProfile \o <<1, 1, 0, 0>>}},
        sof \in {<<192, SOFBody(8, 3, 2, 2, 1, 1)>>, <<192, SOFBody(8, 3, 2, 1, 1, 1)>>,
                 <<192, SOFBody(8, 3, 1, 1, 1, 1)>>, <<192, SOFBody(8, 1, 1, 1, 0, 0)>>,
                 <<194, SOFBody(12, 3, 2, 2, 1, 1)>>, <<193, SOFBody(8, 3, 3, 3, 1, 1)>>}}

\* createWebPData: "RIFF", uint32(100) little-endian, "WEBP", the FourCC
WebPImages ==
    {[bytes |-> TextRIFF \o <<100, 0, 0, 0>> \o TextWEBP \o fourCC,
      cfg |-> Config("webp", 100, 100, "RGBA")] :
        fourCC \in {TextVP8L, TextVP8, <<86, 80, 56, 88>>}}

\* createMinimalHEIFMetadata(colorPrimaries, transferChar, bitDepth, hasAlpha)
HEIFStream(colorPrimaries, transferChar, bitDepth, hasAlpha) ==
    LET ipco == Box(TextPixi, ExactSize(PixiBody(bitDepth)), PixiBody(bitDepth))
                \o Box(TextColr, ExactSize(ColrBody(colorPrimaries, transferChar)),
                       ColrBody(colorPrimaries, transferChar))
                \o (IF hasAlpha THEN Box(TextAuxC, ExactSize(AuxCBody), AuxCBody) ELSE <<>>)
        iprp == Box(TextIpco, ExactSize(ipco), ipco)
        meta == BE32(0) \o Box(TextIprp, ExactSize(iprp), iprp)
    IN FtypBox \o Box(TextMeta, ExactSize(meta), meta)

\* (colorPrimaries, transferChar) of TestHEIFMetadataBoxParsing, and a pair that no
\* case of the two switches names
NclxPairs == {<<1, 1>>, <<9, 16>>, <<9, 18>>, <<12, 1>>, <<2, 2>>}

HEIFImages ==
    {[bytes |-> HEIFStream(nclx[1], nclx[2], bitDepth, hasAlpha),
      cfg |-> Config(format, size, size, "YCbCr")] :
        nclx \in NclxPairs, bitDepth \in {8, 10, 12, 16}, hasAlpha \in BOOLEAN,
        format \in {"heif", "avif"}, size \in {500, 2147483647}}

\* "not a valid image", and the empty file
NotAnImage ==
    [bytes |-> <<110, 111, 116, 32, 97, 32, 118, 97, 108, 105, 100, 32, 105, 109, 97, 103, 101>>,
     cfg |-> ConfigError]

EmptyFile == [bytes |-> <<>>, cfg |-> ConfigError]

Images == PNGImages \cup JPEGImages \cup WebPImages \cup HEIFImages \cup {NotAnImage, EmptyFile}

\* os.Stat on a file that holds size bytes
StatAnswers(size) ==
    {[err |-> FALSE, size |-> size], [err |-> FALSE, size |-> 0], [err |-> TRUE, size |-> 0]}

Files ==
    UNION {{[name |-> "input", open |-> TRUE, bytes |-> img.bytes, cfg |-> img.cfg,
             stat |-> stat] : stat \in StatAnswers(Len(img.bytes))} : img \in Images}
    \cup {[name |-> "/nonexistent/file.png", open |-> FALSE, bytes |-> <<>>,
           cfg |-> ConfigError, stat |-> [err |-> TRUE, size |-> 0]]}

Init ==
    /\ pc = "start"
    /\ file \in Files
    /\ data = file.bytes
    /\ w = Unused
    /\ imageInfo = Unused
    /\ out = Unused

\* info, err := analyzeImage(filename)
AnalyzeImage ==
    /\ pc = "start"
    /\ out' = [op |-> "analyzeImage", jsonOutput |-> FALSE, result |-> analyzeImage(file)]
    /\ pc' = "done"
    /\ UNCHANGED <<data, w, file, imageInfo>>

\* info, err := estimateDecodedSize(filename, jsonOutput)
EstimateDecodedSize ==
    /\ pc = "start"
    /\ \E jsonOutput \in BOOLEAN :
          out' = [op |-> "estimateDecodedSize", jsonOutput |-> jsonOutput,
                  result |-> estimateDecodedSize(file, jsonOutput)]
    /\ pc' = "done"
    /\ UNCHANGED <<data, w, file, imageInfo>>

\* One pass of a batch worker's loop: results <- result{info, err, index}
BatchWorker ==
    /\ pc = "start"
    /\ out' = [op |-> "batchWorker", jsonOutput |-> FALSE, result |-> batchWorker(file)]
    /\ pc' = "done"
    /\ UNCHANGED <<data, w, file, imageInfo>>

Next == AnalyzeImage \/ EstimateDecodedSize \/ BatchWorker

Spec == Init /\ [][Next]_vars


(***************************************************************************)
(* Properties of the pipeline                                              *)
(***************************************************************************)

\* The call has returned a record: no panic, no error, a non-nil *ImageInfo.
RecordFrom(ops) ==
    /\ pc = "done"
    /\ out.op \in ops
    /\ ~out.result.panic
    /\ out.result.err = Nil
    /\ ~out.result.info.nil

Sizing == {"estimateDecodedSize", "batchWorker"}

\* Width * Height * calculateBytesPerPixel(info) as a number, on ten bytes: the
\* factors are below 2^31 and 2^4, so nothing passes the tenth byte.
ExactProduct(info) ==
    MulFrom(MulFrom(Bytes(info.Width, Int64Bytes + 2), Bytes(info.Height, Int64Bytes + 2), 1, 0),
            Bytes(calculateBytesPerPixel(info), Int64Bytes + 2), 1, 0)

\* The number an int64 stands for, on ten bytes, when it is not negative.
Widened(a) == [i \in 1..(Int64Bytes + 2) |-> IF i <= Int64Bytes THEN a[i] ELSE 0]

\* The number does not fit an int64.
PassesInt64(p) == p[Int64Bytes] >= 128 \/ p[Int64Bytes + 1] # 0 \/ p[Int64Bytes + 2] # 0

\* C1: every record that estimateDecodedSize returns or a batch worker sends without
\* an error has DecodedSize equal to the exact product of the sniffer's Width and
\* Height and calculateBytesPerPixel of the record.
C1_DecodedSizeIsExactProduct ==
    RecordFrom(Sizing) =>
        /\ ~Int64Negative(out.result.info.v.DecodedSize)
        /\ Widened(out.result.info.v.DecodedSize) = ExactProduct(out.result.info.v)
        /\ out.result.info.v.Width = file.cfg.Width
        /\ out.result.info.v.Height = file.cfg.Height

\* C3: when the file cannot be opened or the sniffer fails on it, analyzeImage and
\* estimateDecodedSize return an error and a nil record, and no walker has run.
C3_SniffFailureGivesErrorOnly ==
    pc = "done" /\ out.op \in {"analyzeImage", "estimateDecodedSize"}
                /\ (~file.open \/ file.cfg.err) =>
        /\ ~out.result.panic
        /\ out.result.err # Nil
        /\ out.result.info.nil
        /\ out.result.walked = {}

\* estimateDecodedSize on the zero-byte file has returned the sniffer's error.
C3_Witness ==
    /\ pc = "done"
    /\ out.op = "estimateDecodedSize"
    /\ file.open
    /\ file.bytes = <<>>
    /\ file.cfg.err
    /\ out.result.err = "decode"
    /\ out.result.info.nil
    /\ out.result.walked = {}

\* C7: the decoded size is never negative, and a product of width, height and bytes
\* per pixel that does not fit 64 bits ends in an error, never in a record.
C7_DecodedSizeNeverWraps ==
    RecordFrom(Sizing) /\ ~file.stat.err =>
        /\ ~Int64Negative(out.result.info.v.DecodedSize)
        /\ ~PassesInt64(ExactProduct(out.result.info.v))

\* C8: when the file's size is 0 or os.Stat fails, estimateDecodedSize and the batch
\* worker report an error, and no record they emit has OriginalSize 0.
C8_ZeroOriginalSizeIsError ==
    /\ pc = "done" /\ out.op \in Sizing /\ ~out.result.panic
                   /\ (file.stat.err \/ file.stat.size = 0) => out.result.err # Nil
    /\ RecordFrom(Sizing) => out.result.info.v.OriginalSize # 0

\* The bit depths the format allows.
AllowedBitDepths(format) ==
    CASE format = "png" -> {1, 2, 4, 8, 16}
      [] format = "jpeg" -> {8, 12}
      [] format \in {"heif", "avif"} -> {8, 10, 12}
      [] format = "webp" -> {8}
      [] OTHER -> {8}

\* C9: every record analyzeImage returns has a bit depth in its format's set.
C9_BitDepthInFormatSet ==
    RecordFrom({"analyzeImage"}) =>
        out.result.info.v.BitDepth \in AllowedBitDepths(out.result.info.v.Format)

\* A record of a WebP file that detectWebPFormat did not find lossless.
LossyWebP(info) == info.Format = "webp" /\ info.CompressionType # CompressionLossless

NclxPrimaries(d) ==
    {Uint16(SubSeq(d, i + 8, i + 9)) :
        i \in {j \in 1..(Len(d) - 11) : SubSeq(d, j, j + 7) = TextColr \o TextNclx}}

\* C11: in every record analyzeImage returns, HasICCProfile is true exactly when
\* ICCProfileSize > 0; without a profile the color space is sRGB for PNG, JPEG and
\* WebP, and for HEIF and AVIF it is BT.709 unless an nclx colr box selected BT.2020
\* (primaries 9) or Display P3 (primaries 12).
C11_ICCFlagMatchesSize ==
    RecordFrom({"analyzeImage"}) =>
        /\ out.result.info.v.HasICCProfile <=> out.result.info.v.ICCProfileSize > 0
        /\ ~out.result.info.v.HasICCProfile
           /\ out.result.info.v.Format \in {"png", "jpeg", "webp"} =>
               out.result.info.v.ColorSpace = ColorSpaceSRGB
        /\ ~out.result.info.v.HasICCProfile
           /\ out.result.info.v.Format \in {"heif", "avif"} =>
               \/ out.result.info.v.ColorSpace = ColorSpaceBT709
                  /\ NclxPrimaries(file.bytes) \cap {9, 12} = {}
               \/ out.result.info.v.ColorSpace = ColorSpaceBT2020
                  /\ 9 \in NclxPrimaries(file.bytes)
               \/ out.result.info.v.ColorSpace = ColorSpaceDisplayP3
                  /\ 12 \in NclxPrimaries(file.bytes)

\* analyzeImage has returned the record of a PNG file with the 8-byte iCCP chunk.
C11_Witness ==
    /\ RecordFrom({"analyzeImage"})
    /\ out.result.info.v.Format = "png"
    /\ Contains(file.bytes, TextICCP \o TextTestICC)
    /\ out.result.info.v.HasICCProfile
    /\ out.result.info.v.ICCProfileSize = 8
    /\ out.result.info.v.ColorSpace = ColorSpaceSRGB


(***************************************************************************)
(* detectPNGBitDepth on its own: the streams of                            *)
(* TestDetectPNGBitDepth_EdgeCases (signature, length, type, IHDR body),   *)
(* with other lengths, types and bit-depth bytes, cut at every length.     *)
(***************************************************************************)

\* The 4-byte length fields of the first chunk: 13, 12, 14, 10 (the test's
\* InvalidIHDRLength) and 0x0001000D, whose low half alone is 13.
IHDRLengths == {BE32(13), BE32(12), BE32(14), BE32(10), <<0, 1, 0, 13>>}

\* "IHDR", "iCCP" and "IHDX"
FirstChunkTypes == {TextIHDR, TextICCP, <<73, 72, 68, 88>>}

BitDepthBytes == {1, 2, 4, 8, 16, 0, 255}

RECURSIVE Prefixes(_, _)
\* The first k, k - 1, ..., 0 bytes of d.
Prefixes(d, k) == IF k = 0 THEN {<<>>} ELSE {SubSeq(d, 1, k)} \cup Prefixes(d, k - 1)

PNGHeads ==
    UNION {Prefixes(PNGSignature \o length \o chunkType \o IHDRBody(100, 100, b, 6),
                    8 + 8 + 13) :
             length \in IHDRLengths, chunkType \in FirstChunkTypes, b \in BitDepthBytes}

InitPNG ==
    /\ pc = "start"
    /\ data \in PNGHeads
    /\ w = Unused
    /\ file = Unused
    /\ imageInfo = Unused
    /\ out = Unused

\* bitDepth := detectPNGBitDepth(reader)
DetectPNGBitDepth ==
    /\ pc = "start"
    /\ out' = detectPNGBitDepth(data)
    /\ pc' = "done"
    /\ UNCHANGED <<data, w, file, imageInfo>>

NextPNG == DetectPNGBitDepth

SpecPNG == InitPNG /\ [][NextPNG]_vars

\* The stream holds a whole first chunk of type IHDR declaring 13 bytes.
WholeIHDR(d) ==
    /\ Len(d) >= 29
    /\ <<d[9], d[10], d[11], d[12]>> = <<0, 0, 0, 13>>
    /\ <<d[13], d[14], d[15], d[16]>> = TextIHDR

\* C12: detectPNGBitDepth returns byte 8 of the IHDR body when the chunk at offset 8
\* is IHDR, declares exactly 13 bytes and all 13 can be read, and 8 in every other
\* case.
C12_PNGBitDepthIsIHDRByte ==
    pc = "done" => out = IF WholeIHDR(data) THEN data[25] ELSE 8

\* detectPNGBitDepth has returned 4 for the whole IHDR of a 4-bit image.
C12_Witness ==
    /\ pc = "done"
    /\ data = PNGSignature \o BE32(13) \o TextIHDR \o IHDRBody(100, 100, 4, 6)
    /\ out = 4


(***************************************************************************)
(* Properties of detectJPEGSubsampling's classification                    *)
(***************************************************************************)

RECURSIVE SOFReached(_, _)
\* What following the segments from the marker at offset p comes to: the offset of
\* the first SOF0/SOF1/SOF2 marker, EOI, or neither (the stream ends, or a marker
\* does not begin with FF).
SOFReached(d, p) ==
    IF p + 2 > Len(d) \/ d[p + 1] # 255 THEN [kind |-> "none", at |-> p]
    ELSE IF d[p + 2] \in {192, 193, 194} THEN [kind |-> "sof", at |-> p]
    ELSE IF d[p + 2] = 217 THEN [kind |-> "eoi", at |-> p]
    ELSE IF p + 4 > Len(d) THEN [kind |-> "none", at |-> p]
    ELSE SOFReached(d, p + 2 + d[p + 3] * 256 + d[p + 4])

\* The length field of the segment whose marker is at offset p (0 when cut off).
LengthFieldAt(d, p) == IF p + 4 > Len(d) THEN 0 ELSE d[p + 3] * 256 + d[p + 4]

\* The body of the segment at offset p is all in the stream.
BodyWhole(d, p) == LengthFieldAt(d, p) >= 2 /\ p + 2 + LengthFieldAt(d, p) <= Len(d)

BodyAt(d, p) == SubSeq(d, p + 5, p + 2 + LengthFieldAt(d, p))

\* The label of the sampling factors: the high and low half of the second byte of
\* the luma entry and of the first chroma entry.
FactorLabel(ySample, cbSample) ==
    CASE <<ySample, cbSample>> = <<17, 17>> -> "4:4:4"
      [] <<ySample, cbSample>> = <<33, 17>> -> "4:2:2"
      [] <<ySample, cbSample>> = <<34, 17>> -> "4:2:0"
      [] OTHER -> "Custom (" \o ToString(ySample \div 16) \o "x" \o ToString(ySample % 16)
                  \o ":" \o ToString(cbSample \div 16) \o "x" \o ToString(cbSample % 16)
                  \o ")"

\* detectJPEGSubsampling has ended on a stream that starts with SOI.
SubsamplingDone == pc = "done" /\ w.fn = "detectJPEGSubsampling" /\ StartsWithSOI(data)

\* The first SOF segment reached has its whole body in the stream, n bytes or more.
SOFWithBody(n) ==
    /\ SOFReached(data, 2).kind = "sof"
    /\ BodyWhole(data, SOFReached(data, 2).at)
    /\ Len(BodyAt(data, SOFReached(data, 2).at)) >= n

SOFBodyReached == BodyAt(data, SOFReached(data, 2).at)

\* C13: on a stream that starts with SOI, detectJPEGSubsampling returns "Unknown" when
\* EOI is reached before any SOF; for the first SOF0/SOF1/SOF2 segment reached, fewer
\* than 3 components give "Grayscale", and 3 or more give the label of the sampling
\* factors when the body holds all 3 bytes of every component and "Unknown" when it
\* is shorter than 6 + 3 * count bytes; a body shorter than 6 bytes gives "Unknown".
C13_ClassifiedWhenTableIsWhole ==
    SubsamplingDone =>
        /\ SOFReached(data, 2).kind = "eoi" => w.pc = "return" /\ w.ret = "Unknown"
        /\ SOFWithBody(0) => w.pc = "return"
        /\ SOFWithBody(0) /\ ~SOFWithBody(6) => w.ret = "Unknown"
        /\ SOFWithBody(6) =>
              w.ret = IF SOFBodyReached[6] < 3 THEN "Grayscale"
                      ELSE IF Len(SOFBodyReached) < 6 + 3 * SOFBodyReached[6] THEN "Unknown"
                      ELSE FactorLabel(SOFBodyReached[8], SOFBodyReached[11])

\* detectJPEGSubsampling has skipped an APP0 segment and returned "4:2:2" for the
\* SOF0 segment behind it.
C13_Witness ==
    /\ SubsamplingDone
    /\ w.pc = "return"
    /\ data = SOI \o Segment(224, 4, <<0, 0>>)
                  \o Segment(192, ExactLength(SOFBody(8, 3, 2, 1, 1, 1)),
                             SOFBody(8, 3, 2, 1, 1, 1))
    /\ w.ret = "4:2:2"

\* C13 as stated: with 3 or more components the sampling factors alone give the
\* label, whatever the length of the segment's body.
C13_ClassifiedBySamplingFactors ==
    SubsamplingDone =>
        /\ SOFReached(data, 2).kind = "eoi" => w.pc = "return" /\ w.ret = "Unknown"
        /\ SOFWithBody(6) /\ SOFBodyReached[6] < 3 => w.ret = "Grayscale"
        /\ SOFWithBody(11) /\ SOFBodyReached[6] >= 3 =>
              w.ret = FactorLabel(SOFBodyReached[8], SOFBodyReached[11])


(***************************************************************************)
(* detectColorSpaceFromICC on its own: buffers as                          *)
(* TestDetectColorSpaceFromICC builds them, zero bytes and the names of    *)
(* color spaces, here any selection of the seven names at once.            *)
(***************************************************************************)

ICCNames ==
    <<TextDisplayP3, TextP3, TextBT2020, TextRec2020, TextBT709, TextRec709, TextAdobeRGB>>

Zeros(n) == [i \in 1..n |-> 0]

RECURSIVE Joined(_, _)
\* The names selected by sel from the i-th on, a zero byte after each.
Joined(sel, i) ==
    IF i > Len(ICCNames) THEN <<>>
    ELSE (IF i \in sel THEN ICCNames[i] \o <<0>> ELSE <<>>) \o Joined(sel, i + 1)

\* head zero bytes, the selected names, and zero bytes up to size bytes in all.
ICCBuffer(sel, head, size) ==
    Zeros(head) \o Joined(sel, 1) \o Zeros(Max(0, size - head - Len(Joined(sel, 1))))

\* (head, size): buffers of 50 to 58, 127, 128 and 200 bytes, the 128-byte header of
\* the tests, and a header of 70 bytes that only the seven names together bring to
\* 128.
ICCShapes == {<<0, 50>>, <<0, 127>>, <<0, 128>>, <<0, 200>>, <<128, 0>>, <<70, 0>>}

InitICC ==
    /\ pc = "start"
    /\ \E sel \in SUBSET (1..Len(ICCNames)), shape \in ICCShapes :
          /\ imageInfo = sel
          /\ data = ICCBuffer(sel, shape[1], shape[2])
    /\ w = Unused
    /\ file = Unused
    /\ out = Unused

\* result := detectColorSpaceFromICC(tc.data)
DetectColorSpaceFromICC ==
    /\ pc = "start"
    /\ out' = detectColorSpaceFromICC(data)
    /\ pc' = "done"
    /\ UNCHANGED <<data, w, file, imageInfo>>

NextICC == DetectColorSpaceFromICC

SpecICC == InitICC /\ [][NextICC]_vars

\* The label of the highest-priority name among the selected ones: 1, 2 are
\* "Display P3" and "P3", 3, 4 "BT.2020" and "Rec. 2020", 5, 6 "BT.709" and
\* "Rec. 709", 7 "Adobe RGB".
PriorityLabel(sel) ==
    CASE sel \cap {1, 2} # {} -> "Display P3"
      [] sel \cap {1, 2} = {} /\ sel \cap {3, 4} # {} -> "BT.2020"
      [] sel \cap {1, 2, 3, 4} = {} /\ sel \cap {5, 6} # {} -> "BT.709"
      [] sel \cap {1, 2, 3, 4, 5, 6} = {} /\ 7 \in sel -> "Adobe RGB"
      [] OTHER -> "sRGB (ICC)"

\* C14: detectColorSpaceFromICC returns "sRGB" for every buffer shorter than 128
\* bytes whatever it holds, and for a buffer of 128 bytes or more the label of the
\* highest-priority name it holds, "sRGB (ICC)" when it holds none.
C14_ICCLabelByPriority ==
    pc = "done" =>
        out = IF Len(data) < 128 THEN "sRGB" ELSE PriorityLabel(imageInfo)

\* A 200-byte buffer holding "P3", "BT.709" and "Adobe RGB" is labelled "Display P3".
C14_Witness ==
    /\ pc = "done"
    /\ Len(data) = 200
    /\ imageInfo = {2, 5, 7}
    /\ out = "Display P3"


(***************************************************************************)
(* detectWebPFormat on its own: the headers createWebPData writes, with    *)
(* other tags and FourCCs, cut at every length.                            *)
(***************************************************************************)

\* "RIFF" and "RIFX"
ContainerTags == {TextRIFF, <<82, 73, 70, 88>>}

\* "WEBP" and "WEBM"
FormTags == {TextWEBP, <<87, 69, 66, 77>>}

\* "VP8L", "VP8 ", "VP8X" and "VP8l"
FourCCs == {TextVP8L, TextVP8, <<86, 80, 56, 88>>, <<86, 80, 56, 108>>}

\* createWebPData with the three tags free, and two bytes of chunk size behind them
WebPHeads ==
    UNION {Prefixes(tag \o <<100, 0, 0, 0>> \o form \o fourCC \o <<10, 0>>, 18) :
             tag \in ContainerTags, form \in FormTags, fourCC \in FourCCs}

InitWebP ==
    /\ pc = "start"
    /\ data \in WebPHeads
    /\ w = Unused
    /\ file = Unused
    /\ imageInfo = Unused
    /\ out = Unused

\* isLossless, chromaSub := detectWebPFormat(reader)
DetectWebPFormat ==
    /\ pc = "start"
    /\ out' = detectWebPFormat(data)
    /\ pc' = "done"
    /\ UNCHANGED <<data, w, file, imageInfo>>

NextWebP == DetectWebPFormat

SpecWebP == InitWebP /\ [][NextWebP]_vars

\* The stream has 16 bytes or more, "RIFF" at 0..4, "WEBP" at 8..12 and fourCC at
\* 12..16.
WebPHeaderWith(d, fourCC) ==
    /\ Len(d) >= 16
    /\ <<d[1], d[2], d[3], d[4]>> = <<82, 73, 70, 70>>
    /\ <<d[9], d[10], d[11], d[12]>> = <<87, 69, 66, 80>>
    /\ <<d[13], d[14], d[15], d[16]>> = fourCC

\* C15: detectWebPFormat returns (true, N/A) exactly for a RIFF/WEBP header followed
\* by "VP8L", (false, 4:2:0) exactly for one followed by "VP8 ", and (false,
\* Unknown) for every other stream.
C15_WebPFormatByFourCC ==
    pc = "done" =>
        /\ out = <<TRUE, ChromaSubsamplingNA>> <=> WebPHeaderWith(data, <<86, 80, 56, 76>>)
        /\ out = <<FALSE, ChromaSubsampling420>> <=> WebPHeaderWith(data, <<86, 80, 56, 32>>)
        /\ out \in {<<TRUE, ChromaSubsamplingNA>>, <<FALSE, ChromaSubsampling420>>,
                    <<FALSE, ChromaSubsamplingUnknown>>}

\* detectWebPFormat has returned (false, 4:2:0) for "RIFF", a size, "WEBP", "VP8 ".
C15_Witness ==
    /\ pc = "done"
    /\ data = TextRIFF \o <<100, 0, 0, 0>> \o TextWEBP \o TextVP8
    /\ out = <<FALSE, ChromaSubsampling420>>


(***************************************************************************)
(* The colr box under meta -> iprp -> ipco: the container                  *)
(* createMinimalHEIFMetadata writes, its colr payload free, with or        *)
(* without an nclx (9, 16) colr box in front of it.                        *)
(***************************************************************************)

\* ftyp, then meta holding iprp holding ipco with the body ipcoBody
HEIFContainer(ipcoBody) ==
    LET ipco == Box(TextIpco, ExactSize(ipcoBody), ipcoBody)
        iprp == Box(TextIprp, ExactSize(ipco), ipco)
    IN FtypBox \o Box(TextMeta, ExactSize(BE32(0) \o iprp), BE32(0) \o iprp)

\* "nclx", "prof" and "rICC"
ColourTypes == {TextNclx, <<112, 114, 111, 102>>, <<114, 73, 67, 67>>}

\* The values of the two switches, values next to them, and values whose low byte
\* alone is one of them (0x0109, 0x0210).
PrimariesValues == {0, 1, 2, 9, 12, 13, 265}

TransferValues == {1, 16, 17, 18, 528}

\* The colr payload of createMinimalHEIFMetadata with the colour type free
ColrPayload(colourType, colorPrimaries, transferChar) ==
    colourType \o SubSeq(ColrBody(colorPrimaries, transferChar), 5, 11)

ColrChoices ==
    [first : BOOLEAN, colourType : ColourTypes, colorPrimaries : PrimariesValues,
     transferChar : TransferValues]

ColrStream(c) ==
    HEIFContainer(
        (IF c.first THEN Box(TextColr, ExactSize(ColrBody(9, 16)), ColrBody(9, 16)) ELSE <<>>)
        \o Box(TextColr,
               ExactSize(ColrPayload(c.colourType, c.colorPrimaries, c.transferChar)),
               ColrPayload(c.colourType, c.colorPrimaries, c.transferChar)))

InitColr ==
    /\ pc = "walk"
    /\ imageInfo \in ColrChoices
    /\ data = ColrStream(imageInfo)
    /\ w = HEIFFrame(0)
    /\ file = Unused
    /\ out = Unused

SpecColr == InitColr /\ [][NextHEIF]_vars

\* The color space and HDR type before the last colr box is read.
BeforeColr(c) ==
    IF c.first THEN <<ColorSpaceBT2020, HDRPQ>> ELSE <<ColorSpaceBT709, HDRNone>>

\* C16: for a colr box under meta -> iprp -> ipco whose payload is nclx with 8 bytes
\* or more, parseHEIFMetadata maps primaries 1, 9, 12 to BT.709, BT.2020, Display P3
\* and transfer 16, 18 to PQ, HLG; any other value, and a colr box of another type,
\* leaves the field as it was.
C16_NclxMapping ==
    pc = "done" /\ imageInfo \in ColrChoices =>
        /\ w.pc = "return"
        /\ w.ret.ColorSpace =
              IF imageInfo.colourType # <<110, 99, 108, 120>> THEN BeforeColr(imageInfo)[1]
              ELSE CASE imageInfo.colorPrimaries = 1 -> ColorSpaceBT709
                     [] imageInfo.colorPrimaries = 9 -> ColorSpaceBT2020
                     [] imageInfo.colorPrimaries = 12 -> ColorSpaceDisplayP3
                     [] OTHER -> BeforeColr(imageInfo)[1]
        /\ w.ret.HDRType =
              IF imageInfo.colourType # <<110, 99, 108, 120>> THEN BeforeColr(imageInfo)[2]
              ELSE CASE imageInfo.transferChar = 16 -> HDRPQ
                     [] imageInfo.transferChar = 18 -> HDRHLG
                     [] OTHER -> BeforeColr(imageInfo)[2]

\* parseHEIFMetadata has returned Display P3 and HLG for nclx (12, 18) under ipco.
C16_Witness ==
    /\ pc = "done"
    /\ imageInfo = [first |-> FALSE, colourType |-> TextNclx, colorPrimaries |-> 12,
                    transferChar |-> 18]
    /\ Contains(data, TextIpco \o ExactSize(ColrBody(12, 18)) \o TextColr \o TextNclx)
    /\ w.pc = "return"
    /\ w.ret.ColorSpace = ColorSpaceDisplayP3
    /\ w.ret.HDRType = HDRHLG


(***************************************************************************)
(* One walker after another on the same reader: the second starts where    *)
(* the first left the cursor.                                              *)
(***************************************************************************)

CursorWalkers ==
    {"detectJPEGSubsampling", "is12BitJPEG", "detectJPEGICCProfile", "detectPNGICCProfile",
     "parseHEIFMetadata"}

\* The frame of the call fn(r) with the cursor of r at pos
StartFrame(fn, pos) == IF fn = "parseHEIFMetadata" THEN HEIFFrame(pos) ELSE WalkerFrame(fn, pos)

\* The bytes of the files, and streams in which a walker stops early or late
ReaderStreams ==
    {img.bytes : img \in Images}
    \cup {SOI \o Segment(224, 4, <<0, 0>>) \o Segment(MarkerAPP2, 18, TextICCProfile \o <<1, 1, 0, 0>>),
          SOI \o Segment(192, 8, <<8, 0, 100, 0, 100, 1>>) \o SOI
              \o Segment(192, ExactLength(SOFBody(12, 3, 2, 2, 1, 1)), SOFBody(12, 3, 2, 2, 1, 1)),
          \* TestDetectPNGICCProfile_EdgeCases/MultipleChunks_FindsICC: IHDR, gAMA, iCCP
          PNGSignature \o Chunk(TextIHDR, IHDRBody(100, 100, 8, 6))
              \o Chunk(<<103, 65, 77, 65>>, <<0, 0, 177, 143>>) \o BE32(8) \o TextICCP \o TextTestICC}

InitTwice ==
    /\ pc = "first"
    /\ data \in ReaderStreams
    /\ w = Unused
    /\ file = Unused
    /\ imageInfo = Unused
    /\ out = Unused

\* A walker called on the reader at offset 0
FirstWalk ==
    /\ pc = "first"
    /\ \E fn \in CursorWalkers : w' = RunWalker(data, StartFrame(fn, 0))
    /\ pc' = IF w'.pc = "panic" THEN "panicked" ELSE "second"
    /\ UNCHANGED <<data, file, imageInfo, out>>

\* A walker called on the same reader, its cursor where the first walker left it
SecondWalk ==
    /\ pc = "second"
    /\ \E fn \in CursorWalkers : out' = RunWalker(data, StartFrame(fn, w.pos))
    /\ pc' = "done"
    /\ UNCHANGED <<data, w, file, imageInfo>>

NextTwice == FirstWalk \/ SecondWalk

SpecTwice == InitTwice /\ [][NextTwice]_vars

\* The frames a and b of one walker ended the same way with the same result.
SameOutcome(a, b) == a.pc = b.pc /\ (a.pc = "return" => a.ret = b.ret)

\* C17: a walker run from the cursor position a previous walker left ends as it does
\* on a rewound reader, and run twice it returns the same result twice.
C17_WalkersIgnoreCursor ==
    pc = "done" =>
        /\ SameOutcome(out, RunWalker(data, StartFrame(out.fn, 0)))
        /\ out.fn = w.fn => SameOutcome(out, w)

\* detectJPEGICCProfile has returned the 2-byte profile twice, the second time from
\* the end of the APP2 segment, where the first call left the cursor.
C17_Witness ==
    /\ pc = "done"
    /\ w.fn = "detectJPEGICCProfile"
    /\ out.fn = "detectJPEGICCProfile"
    /\ w.pos = 28
    /\ w.pc = "return"
    /\ out.pc = "return"
    /\ out.ret.icc = <<0, 0>>
    /\ w.ret.icc = <<0, 0>>


(***************************************************************************)
(* processBatch: the caller sends one job per file and closes the jobs     *)
(* channel, each worker goroutine takes jobs and sends one result per job, *)
(* a goroutine closes the results channel once every worker has returned,  *)
(* and the caller stores the results by index before it builds the         *)
(* BatchResult.  Both channels have room for len(files) entries, so no     *)
(* send blocks.  Here                                                      *)
(*   file       is files, the list handed to processBatch,                 *)
(*   data       is the jobs channel,                                       *)
(*   w          is the worker goroutines,                                  *)
(*   imageInfo  is the results channel,                                    *)
(*   out        is the caller's locals and, at the end, what it returns.   *)
(***************************************************************************)

ExitSuccess == 0

ExitProcessingError == 4

ExitPartialSuccess == 5

\* The longest list of files, and the largest number of workers
MaxFiles == 3

MaxWorkers == 2

BatchFile(name, img, stat) ==
    [name |-> name, open |-> TRUE, bytes |-> img.bytes, cfg |-> img.cfg, stat |-> stat]

\* A PNG that is analysed and sized; a HEIC that os.Stat fails on after the analysis;
\* a file the sniffer refuses; a path that cannot be opened; a JPEG whose APP2
\* segment is one byte longer than "ICC_PROFILE\0".
BatchFiles ==
    {BatchFile("a.png", [bytes |-> PNGStream(500, 500, 8, 6, FALSE),
                         cfg |-> Config("png", 500, 500, "NRGBA")],
               [err |-> FALSE, size |-> Len(PNGStream(500, 500, 8, 6, FALSE))]),
     BatchFile("c.heic", [bytes |-> HEIFStream(9, 16, 10, FALSE),
                          cfg |-> Config("heif", 500, 500, "YCbCr")],
               [err |-> TRUE, size |-> 0]),
     BatchFile("d.png", NotAnImage, [err |-> FALSE, size |-> Len(NotAnImage.bytes)]),
     [name |-> "/nonexistent/file.png", open |-> FALSE, bytes |-> <<>>, cfg |-> ConfigError,
      stat |-> [err |-> TRUE, size |-> 0]],
     BatchFile("e.jpg", [bytes |-> SOI \o Segment(MarkerAPP2, 15, TextICCProfile \o <<1>>)
                                       \o Segment(192, ExactLength(SOFBody(8, 3, 2, 2, 1, 1)),
                                                  SOFBody(8, 3, 2, 2, 1, 1))
                                       \o <<255, MarkerEOI>>,
                         cfg |-> Config("jpeg", 100, 100, "YCbCr")],
               [err |-> FALSE, size |-> 40])}

\* The file behind a filename: what the environment answers about that path
Disk(filename) == CHOOSE f \in BatchFiles : f.name = filename

\* main hands processBatch two filenames or more.
FileLists == UNION {[1..n -> {f.name : f \in BatchFiles}] : n \in 2..MaxFiles}

\* A worker that holds no result
NoResult == [info |-> NilInfo, err |-> Nil, index |-> -1]

\* workers goroutines at the head of their loop
Pool(workers) == [k \in 1..workers |-> [pc |-> "range", r |-> NoResult]]

\* -workers may be anything; runtime.NumCPU() replaces a count of 0 or less.
InitBatch ==
    /\ pc = "send"
    /\ file \in FileLists
    /\ data = [jobs |-> <<>>, closed |-> FALSE]
    /\ \E workers \in 0..MaxWorkers, numCPU \in 1..MaxWorkers :
          w = Pool(IF workers <= 0 THEN numCPU ELSE workers)
    /\ imageInfo = [results |-> <<>>, closed |-> FALSE]
    /\ out = [i |-> 0, resultMap |-> <<>>, arrived |-> <<>>]

\* jobs <- job{filename: file, index: i}: the channel holds len(files) jobs
SendJob ==
    /\ pc = "send"
    /\ out.i < Len(file)
    /\ Len(data.jobs) < Len(file)
    /\ data' = [data EXCEPT !.jobs = Append(@, [filename |-> file[out.i + 1], index |-> out.i])]
    /\ out' = [out EXCEPT !.i = @ + 1]
    /\ UNCHANGED <<pc, w, file, imageInfo>>

\* close(jobs)
CloseJobs ==
    /\ pc = "send"
    /\ out.i = Len(file)
    /\ data' = [data EXCEPT !.closed = TRUE]
    /\ pc' = "collect"
    /\ UNCHANGED <<w, file, imageInfo, out>>

\* analyzeImage, and one pass of a worker's loop, on each file of the disk: what a
\* worker computes for a job depends on the job's file alone.
AnalysisOf == [f \in BatchFiles |-> analyzeImage(f)]

ResultOf == [f \in BatchFiles |-> batchWorker(f)]

\* Worker k with the job j it received and r, what its analysis of the job came to:
\* a panic in a goroutine ends the process.
TakeJobWith(k, j, r) ==
    /\ data' = [data EXCEPT !.jobs = Tail(@)]
    /\ IF r.panic
       THEN /\ pc' = "panicked"
            /\ w' = [w EXCEPT ![k] = [pc |-> "panic", r |-> NoResult]]
       ELSE /\ pc' = pc
            /\ w' = [w EXCEPT ![k] = [pc |-> "send",
                                      r |-> [info |-> r.info, err |-> r.err, index |-> j.index]]]
    /\ UNCHANGED <<file, imageInfo, out>>

\* for j := range jobs { info, err := analyzeImage(j.filename); ... }
TakeJob ==
    /\ pc \in {"send", "collect"}
    /\ data.jobs # <<>>
    /\ \E k \in DOMAIN w :
          /\ w[k].pc = "range"
          /\ TakeJobWith(k, Head(data.jobs), ResultOf[Disk(Head(data.jobs).filename)])

\* results <- result{info: info, err: err, index: j.index}: the channel holds
\* len(files) results
SendResult ==
    /\ pc \in {"send", "collect"}
    /\ \E k \in DOMAIN w :
          /\ w[k].pc = "send"
          /\ Len(imageInfo.results) < Len(file)
          /\ imageInfo' = [imageInfo EXCEPT !.results = Append(@, w[k].r)]
          /\ w' = [w EXCEPT ![k] = [pc |-> "range", r |-> NoResult]]
    /\ UNCHANGED <<pc, data, file, out>>

\* The range over the closed and drained jobs channel ends; wg.Done()
WorkerExit ==
    /\ pc = "collect"
    /\ data.jobs = <<>> /\ data.closed
    /\ \E k \in DOMAIN w :
          /\ w[k].pc = "range"
          /\ w' = [w EXCEPT ![k] = [pc |-> "done", r |-> NoResult]]
    /\ UNCHANGED <<pc, data, file, imageInfo, out>>

\* go func() { wg.Wait(); close(results) }()
CloseResults ==
    /\ pc = "collect"
    /\ ~imageInfo.closed
    /\ \A k \in DOMAIN w : w[k].pc = "done"
    /\ imageInfo' = [imageInfo EXCEPT !.closed = TRUE]
    /\ UNCHANGED <<pc, data, w, file, out>>

\* A slip: the results are kept in the order they arrive in.
StoredInArrivalOrder(resultMap, r) ==
    [x \in DOMAIN resultMap \cup {Cardinality(DOMAIN resultMap)} |->
        IF x \in DOMAIN resultMap THEN resultMap[x] ELSE r]

\* resultMap[r.index] = r
Stored(resultMap, r) ==
    [x \in DOMAIN resultMap \cup {r.index} |-> IF x = r.index THEN r ELSE resultMap[x]]

\* for r := range results { resultMap[r.index] = r }; arrived keeps the indexes in
\* the order the loop met them.
Collect ==
    /\ pc = "collect"
    /\ imageInfo.results # <<>>
    /\ out' = [out EXCEPT !.resultMap = Stored(@, Head(imageInfo.results)),
                          !.arrived = Append(@, Head(imageInfo.results).index)]
    /\ imageInfo' = [imageInfo EXCEPT !.results = Tail(@)]
    /\ UNCHANGED <<pc, data, w, file>>

\* a + b on int64, byte by byte from the lowest; the last carry is dropped.
RECURSIVE AddFrom(_, _, _, _)
AddFrom(a, b, i, carry) ==
    IF i > Len(a) THEN <<>>
    ELSE <<(a[i] + b[i] + carry) % 256>> \o AddFrom(a, b, i + 1, (a[i] + b[i] + carry) \div 256)

Int64Add(a, b) == AddFrom(a, b, 1, 0)

\* The locals of the pass over the indexes.  A float64 sum depends on the order of
\* its terms: totalCompressionRatio is kept as the terms in the order they are added.
NoTotals ==
    [Images |-> <<>>, Errors |-> <<>>, successCount |-> 0, totalOriginal |-> 0,
     totalDecoded |-> Int64(0), totalCompressionRatio |-> <<>>]

\* One turn of the loop over i, on the result r stored for the file named filename
Counted(acc, filename, r) ==
    IF r.err # Nil
    THEN [acc EXCEPT !.Errors = Append(@, [Filename |-> filename, Error |-> r.err])]
    ELSE IF ~r.info.nil
    THEN [acc EXCEPT !.Images = Append(@, r.info.v),
                     !.successCount = @ + 1,
                     !.totalOriginal = @ + r.info.v.OriginalSize,
                     !.totalDecoded = Int64Add(@, r.info.v.DecodedSize),
                     !.totalCompressionRatio = Append(@, r.info.v.CompressionRatio)]
    ELSE acc

\* resultMap[i] of a map that may lack the key: the zero result
Lookup(resultMap, i) == IF i \in DOMAIN resultMap THEN resultMap[i] ELSE NoResult

RECURSIVE CountedFrom(_, _, _, _)
\* for i := 0; i < len(files); i++ { r := resultMap[i]; ... }
CountedFrom(files, resultMap, i, acc) ==
    IF i >= Len(files) THEN acc
    ELSE CountedFrom(files, resultMap, i + 1,
                     Counted(acc, files[i + 1], Lookup(resultMap, i)))

\* A slip: the two tests in the other order.
ExitCodeOfPartialFirst(successCount, n) ==
    IF successCount < n THEN ExitPartialSuccess
    ELSE IF successCount = 0 THEN ExitProcessingError
    ELSE ExitSuccess

ExitCodeOf(successCount, n) ==
    IF successCount = 0 THEN ExitProcessingError
    ELSE IF successCount < n THEN ExitPartialSuccess
    ELSE ExitSuccess

\* float64(total) / (1024 * 1024)
MegaBytes(total) == [class |-> "finite", num |-> total, den |-> 1024 * 1024]

SummaryOf(acc, n) ==
    [TotalFiles |-> n,
     SuccessfulFiles |-> acc.successCount,
     FailedFiles |-> n - acc.successCount,
     TotalOriginalSize |-> acc.totalOriginal,
     TotalDecodedSize |-> acc.totalDecoded,
     AverageCompression |-> IF acc.successCount > 0
                            THEN [sum |-> acc.totalCompressionRatio, by |-> acc.successCount]
                            ELSE [sum |-> <<>>, by |-> 1],
     TotalOriginalSizeMB |-> MegaBytes(acc.totalOriginal),
     TotalDecodedSizeMB |-> MegaBytes(acc.totalDecoded)]

\* processBatch's two return values once the pass has left acc
BatchReturn(acc, n) ==
    [batchResult |-> [Images |-> acc.Images, Summary |-> SummaryOf(acc, n),
                      Errors |-> acc.Errors],
     exitCode |-> ExitCodeOf(acc.successCount, n)]

\* The range over the closed and drained results channel ends; the pass over the
\* indexes, the summary, the exit code, return batchResult, exitCode
ReturnBatch ==
    /\ pc = "collect"
    /\ imageInfo.results = <<>> /\ imageInfo.closed
    /\ out' = [i |-> out.i, resultMap |-> out.resultMap, arrived |-> out.arrived,
               ret |-> BatchReturn(CountedFrom(file, out.resultMap, 0, NoTotals), Len(file))]
    /\ pc' = "returned"
    /\ UNCHANGED <<data, w, file, imageInfo>>

NextBatch ==
    \/ SendJob
    \/ CloseJobs
    \/ TakeJob
    \/ SendResult
    \/ WorkerExit
    \/ CloseResults
    \/ Collect
    \/ ReturnBatch

SpecBatch == InitBatch /\ [][NextBatch]_vars


(***************************************************************************)
(* Properties of processBatch                                              *)
(***************************************************************************)

\* The k-th smallest member of a set of numbers
Nth(S, k) == CHOOSE x \in S : Cardinality({y \in S : y < x}) = k - 1

\* The places of the list whose file analyzeImage fails on, and the others
FailedAt == {i \in DOMAIN file : AnalysisOf[Disk(file[i])].err # Nil}

SucceededAt == DOMAIN file \ FailedAt

\* What one worker sends for the file at place i when it is handed that file alone
ResultAlone(i) ==
    [info |-> ResultOf[Disk(file[i])].info, err |-> ResultOf[Disk(file[i])].err,
     index |-> i - 1]

\* C18: whatever the number of workers and the order in which they take jobs and
\* send results, processBatch has stored by index the result of analysing each file
\* alone when it returns; Images holds the records of the files that were analysed,
\* Errors the (filename, error) pairs of the others, both in ascending index order;
\* and no schedule lets it return when a worker panics on one of the files.
C18_BatchResultIgnoresInterleaving ==
    pc = "returned" =>
        /\ \A i \in DOMAIN file : ~ResultOf[Disk(file[i])].panic
        /\ out.resultMap = [x \in 0..(Len(file) - 1) |-> ResultAlone(x + 1)]
        /\ out.ret.batchResult.Images =
               [k \in 1..Cardinality(SucceededAt) |-> ResultAlone(Nth(SucceededAt, k)).info.v]
        /\ out.ret.batchResult.Errors =
               [k \in 1..Cardinality(FailedAt) |->
                   [Filename |-> file[Nth(FailedAt, k)],
                    Error |-> ResultAlone(Nth(FailedAt, k)).err]]

\* Three files on two workers; the results of the second and the third reach the
\* caller before the result of the first.
C18_Witness ==
    /\ pc = "returned"
    /\ Len(file) = 3 /\ Len(w) = 2
    /\ file[1] = "a.png" /\ file[2] = "d.png" /\ file[3] = "c.heic"
    /\ out.arrived = <<1, 2, 0>>
    /\ Len(out.ret.batchResult.Images) = 2
    /\ out.ret.batchResult.Images[1].Filename = "a.png"
    /\ out.ret.batchResult.Errors = <<[Filename |-> "d.png", Error |-> "decode"]>>

\* How many places of seq hold x
Occurrences(seq, x) == Cardinality({k \in DOMAIN seq : seq[k] = x})

\* C19: when processBatch has returned, a file analyzeImage failed on is in Errors
\* under its own filename with its error, as often as it is in the list, and a file
\* that was analysed has its record in Images as often as it is in the list; nothing
\* else is in either; and the summary counts them: SuccessfulFiles = len(Images),
\* FailedFiles = len(Errors), SuccessfulFiles + FailedFiles = TotalFiles = len(files).
C19_EveryFileListedOnce ==
    pc = "returned" =>
        /\ \A i \in FailedAt :
              /\ Occurrences(out.ret.batchResult.Errors,
                             [Filename |-> file[i], Error |-> AnalysisOf[Disk(file[i])].err])
                     = Occurrences(file, file[i])
              /\ \A k \in DOMAIN out.ret.batchResult.Images :
                     out.ret.batchResult.Images[k].Filename # file[i]
        /\ \A i \in SucceededAt :
              /\ Occurrences(out.ret.batchResult.Images, ResultOf[Disk(file[i])].info.v)
                     = Occurrences(file, file[i])
              /\ \A k \in DOMAIN out.ret.batchResult.Errors :
                     out.ret.batchResult.Errors[k].Filename # file[i]
        /\ Len(out.ret.batchResult.Errors) = Cardinality(FailedAt)
        /\ Len(out.ret.batchResult.Images) = Cardinality(SucceededAt)
        /\ out.ret.batchResult.Summary.SuccessfulFiles = Len(out.ret.batchResult.Images)
        /\ out.ret.batchResult.Summary.FailedFiles = Len(out.ret.batchResult.Errors)
        /\ out.ret.batchResult.Summary.TotalFiles = Len(file)
        /\ out.ret.batchResult.Summary.SuccessfulFiles
               + out.ret.batchResult.Summary.FailedFiles
               = out.ret.batchResult.Summary.TotalFiles

\* The same unreadable file twice, and a file os.Stat failed on after its analysis:
\* two equal entries in Errors, one record in Images.
C19_Witness ==
    /\ pc = "returned"
    /\ Len(file) = 3
    /\ file[1] = "d.png" /\ file[2] = "c.heic" /\ file[3] = "d.png"
    /\ out.ret.batchResult.Errors =
           <<[Filename |-> "d.png", Error |-> "decode"], [Filename |-> "d.png", Error |-> "decode"]>>
    /\ Len(out.ret.batchResult.Images) = 1
    /\ out.ret.batchResult.Images[1].Format = "heif"
    /\ out.ret.batchResult.Summary.FailedFiles = 2

\* C20: the exit code processBatch returns is ExitSuccess (0) exactly when
\* analyzeImage succeeded on every file, ExitProcessingError (4) exactly when it
\* succeeded on none, and ExitPartialSuccess (5) exactly when it succeeded on one
\* file at least and failed on one at least.
C20_ExitCodeTellsHowManyFailed ==
    pc = "returned" =>
        /\ out.ret.exitCode = ExitSuccess <=> FailedAt = {}
        /\ out.ret.exitCode = ExitProcessingError <=> SucceededAt = {}
        /\ out.ret.exitCode = ExitPartialSuccess <=> (SucceededAt # {} /\ FailedAt # {})

\* One file of two could not be opened.
C20_Witness ==
    /\ pc = "returned"
    /\ Len(file) = 2
    /\ file[1] = "/nonexistent/file.png" /\ file[2] = "a.png"
    /\ out.ret.exitCode = ExitPartialSuccess
    /\ out.ret.batchResult.Summary.SuccessfulFiles = 1


(***************************************************************************)
(* The five enumerated types and their JSON form.  json.Marshal of a Go    *)
(* string gives a JSON string token and json.Unmarshal into a string       *)
(* accepts no other token; a token is kept as its kind and its content.    *)
(* Here imageInfo is the value (its type and its integer), out the token   *)
(* MarshalJSON gave, and w what UnmarshalJSON left in a zero variable.     *)
(***************************************************************************)

EnumTypes == {"ColorModel", "ColorSpace", "HDRType", "ChromaSubsampling", "CompressionType"}

\* func (cm ColorModel) String() string, and the four other String methods
String(type, v) ==
    CASE type = "ColorModel" ->
            (CASE v = ColorModelRGB -> "RGB"
               [] v = ColorModelYCbCr -> "YCbCr"
               [] v = ColorModelGrayscale -> "Grayscale"
               [] v = ColorModelIndexed -> "Indexed"
               [] OTHER -> "Unknown")
      [] type = "ColorSpace" ->
            (CASE v = ColorSpaceSRGB -> "sRGB"
               [] v = ColorSpaceAdobeRGB -> "Adobe RGB"
               [] v = ColorSpaceBT709 -> "BT.709"
               [] v = ColorSpaceBT2020 -> "BT.2020"
               [] v = ColorSpaceDisplayP3 -> "Display P3"
               [] OTHER -> "Unknown")
      [] type = "HDRType" ->
            (CASE v = HDRPQ -> "PQ (SMPTE ST 2084)"
               [] v = HDRHLG -> "HLG (ARIB STD-B67)"
               [] v = HDRLimited -> "Limited"
               [] v = HDRNone -> "None"
               [] OTHER -> "Unknown")
      [] type = "ChromaSubsampling" ->
            (CASE v = ChromaSubsampling444 -> "4:4:4"
               [] v = ChromaSubsampling422 -> "4:2:2"
               [] v = ChromaSubsampling420 -> "4:2:0"
               [] v = ChromaSubsamplingNA -> "N/A"
               [] OTHER -> "Unknown")
      [] type = "CompressionType" ->
            (CASE v = CompressionLossless -> "Lossless"
               [] v = CompressionLossy -> "Lossy"
               [] v = CompressionHybrid -> "Lossy/Lossless"
               [] OTHER -> "Unknown")

\* A slip: ChromaSubsampling falls back to N/A, as HDRType falls back to None.
FromLabelChromaDefaultNA(type, s) ==
    CASE type = "ColorModel" ->
            (CASE s = "RGB" -> ColorModelRGB
               [] s = "YCbCr" -> ColorModelYCbCr
               [] s = "Grayscale" -> ColorModelGrayscale
               [] s = "Indexed" -> ColorModelIndexed
               [] OTHER -> ColorModelUnknown)
      [] type = "ColorSpace" ->
            (CASE s = "sRGB" -> ColorSpaceSRGB
               [] s = "Adobe RGB" -> ColorSpaceAdobeRGB
               [] s = "BT.709" -> ColorSpaceBT709
               [] s = "BT.2020" -> ColorSpaceBT2020
               [] s = "Display P3" -> ColorSpaceDisplayP3
               [] OTHER -> ColorSpaceUnknown)
      [] type = "HDRType" ->
            (CASE s = "PQ (SMPTE ST 2084)" -> HDRPQ
               [] s = "HLG (ARIB STD-B67)" -> HDRHLG
               [] s = "Limited" -> HDRLimited
               [] OTHER -> HDRNone)
      [] type = "ChromaSubsampling" ->
            (CASE s = "4:4:4" -> ChromaSubsampling444
               [] s = "4:2:2" -> ChromaSubsampling422
               [] s = "4:2:0" -> ChromaSubsampling420
               [] OTHER -> ChromaSubsamplingNA)
      [] type = "CompressionType" ->
            (CASE s = "Lossless" -> CompressionLossless
               [] s = "Lossy" -> CompressionLossy
               [] s = "Lossy/Lossless" -> CompressionHybrid
               [] OTHER -> CompressionUnknown)

\* The switch of each UnmarshalJSON on the decoded string s
FromLabel(type, s) ==
    CASE type = "ColorModel" ->
            (CASE s = "RGB" -> ColorModelRGB
               [] s = "YCbCr" -> ColorModelYCbCr
               [] s = "Grayscale" -> ColorModelGrayscale
               [] s = "Indexed" -> ColorModelIndexed
               [] OTHER -> ColorModelUnknown)
      [] type = "ColorSpace" ->
            (CASE s = "sRGB" -> ColorSpaceSRGB
               [] s = "Adobe RGB" -> ColorSpaceAdobeRGB
               [] s = "BT.709" -> ColorSpaceBT709
               [] s = "BT.2020" -> ColorSpaceBT2020
               [] s = "Display P3" -> ColorSpaceDisplayP3
               [] OTHER -> ColorSpaceUnknown)
      [] type = "HDRType" ->
            (CASE s = "PQ (SMPTE ST 2084)" -> HDRPQ
               [] s = "HLG (ARIB STD-B67)" -> HDRHLG
               [] s = "Limited" -> HDRLimited
               [] s = "None" -> HDRNone
               [] OTHER -> HDRNone)
      [] type = "ChromaSubsampling" ->
            (CASE s = "4:4:4" -> ChromaSubsampling444
               [] s = "4:2:2" -> ChromaSubsampling422
               [] s = "4:2:0" -> ChromaSubsampling420
               [] s = "N/A" -> ChromaSubsamplingNA
               [] OTHER -> ChromaSubsamplingUnknown)
      [] type = "CompressionType" ->
            (CASE s = "Lossless" -> CompressionLossless
               [] s = "Lossy" -> CompressionLossy
               [] s = "Lossy/Lossless" -> CompressionHybrid
               [] OTHER -> CompressionUnknown)

\* json.Marshal of a string and of an int
JSONString(s) == [kind |-> "string", text |-> s]

JSONNumber(n) == [kind |-> "number", text |-> ToString(n)]

\* return json.Marshal(cm.String())
MarshalJSON(type, v) == JSONString(String(type, v))

\* json.Unmarshal(data, &s) fails on a token that is no string and the variable
\* keeps its value, here the zero value; otherwise the switch assigns.
UnmarshalJSON(type, token) ==
    IF token.kind # "string" THEN [err |-> "unmarshal", v |-> 0]
    ELSE [err |-> Nil, v |-> FromLabel(type, token.text)]

\* The integers an enumerated variable is given: the defined ones, their
\* neighbours on both sides, and 999 as TestStringMethods has it
EnumValues == (-3..8) \cup {999}

\* The defined values of each type
Defined(type) ==
    CASE type = "ColorModel" -> ColorModelUnknown..ColorModelIndexed
      [] type = "ColorSpace" -> ColorSpaceUnknown..ColorSpaceDisplayP3
      [] type = "HDRType" -> HDRNone..HDRLimited
      [] type = "ChromaSubsampling" -> ChromaSubsamplingNA..ChromaSubsamplingUnknown
      [] type = "CompressionType" -> CompressionUnknown..CompressionHybrid

InitEnum ==
    /\ pc = "value"
    /\ imageInfo \in [type : EnumTypes, v : EnumValues]
    /\ data = Unused
    /\ file = Unused
    /\ w = Unused
    /\ out = Unused

\* data, err := v.MarshalJSON()
Marshal ==
    /\ pc = "value"
    /\ out' = MarshalJSON(imageInfo.type, imageInfo.v)
    /\ pc' = "marshalled"
    /\ UNCHANGED <<data, w, file, imageInfo>>

\* err := u.UnmarshalJSON(data), on what MarshalJSON gave
Unmarshal ==
    /\ pc = "marshalled"
    /\ w' = UnmarshalJSON(imageInfo.type, out)
    /\ pc' = "unmarshalled"
    /\ UNCHANGED <<data, file, imageInfo, out>>

\* err := u.UnmarshalJSON(data), on the integer as encoding/json would write it
\* for a type without MarshalJSON
UnmarshalNumber ==
    /\ pc = "value"
    /\ out' = JSONNumber(imageInfo.v)
    /\ w' = UnmarshalJSON(imageInfo.type, JSONNumber(imageInfo.v))
    /\ pc' = "refused"
    /\ UNCHANGED <<data, file, imageInfo>>

NextEnum == Marshal \/ Unmarshal \/ UnmarshalNumber

SpecEnum == InitEnum /\ [][NextEnum]_vars

\* The labels the five String methods are written to give
Labels ==
    [ColorModel |-> <<"Unknown", "RGB", "YCbCr", "Grayscale", "Indexed">>,
     ColorSpace |-> <<"Unknown", "sRGB", "Adobe RGB", "BT.709", "BT.2020", "Display P3">>,
     HDRType |-> <<"None", "PQ (SMPTE ST 2084)", "HLG (ARIB STD-B67)", "Limited">>,
     ChromaSubsampling |-> <<"N/A", "4:4:4", "4:2:2", "4:2:0", "Unknown">>,
     CompressionType |-> <<"Unknown", "Lossless", "Lossy", "Lossy/Lossless">>]

\* C21: MarshalJSON of a defined value of the five enumerated types gives a JSON
\* string holding the value's label, never a number, and UnmarshalJSON of that
\* token gives the value back without an error; an integer outside the defined
\* values is written as "Unknown".
C21_EnumsRoundTripThroughLabels ==
    /\ pc \in {"marshalled", "unmarshalled"} =>
          /\ out.kind = "string"
          /\ out.text = IF imageInfo.v \in Defined(imageInfo.type)
                        THEN Labels[imageInfo.type][imageInfo.v + 1]
                        ELSE "Unknown"
    /\ (pc = "unmarshalled" /\ imageInfo.v \in Defined(imageInfo.type)) =>
          w = [err |-> Nil, v |-> imageInfo.v]

\* ChromaSubsamplingUnknown, the one defined value labelled "Unknown" that is not
\* the zero value, has come back.
C21_Witness ==
    /\ pc = "unmarshalled"
    /\ imageInfo = [type |-> "ChromaSubsampling", v |-> ChromaSubsamplingUnknown]
    /\ out = JSONString("Unknown")
    /\ w.v = ChromaSubsamplingUnknown


\* C22: a record of an 8-bit YCbCr JPEG is sized at 3 bytes per pixel when its
\* subsampling is 4:4:4 and at 2 bytes per pixel when it is 4:2:0: the decoded size
\* of a 4:2:0 JPEG is width * height * 2.
C22_SubsampledJPEGTakesTwoBytes ==
    (/\ RecordFrom(Sizing)
     /\ ~file.stat.err
     /\ out.result.info.v.Format = "jpeg"
     /\ out.result.info.v.BitDepth = 8
     /\ out.result.info.v.ColorModel = ColorModelYCbCr) =>
        /\ out.result.info.v.ChromaSubsampling = ChromaSubsampling444 =>
              /\ calculateBytesPerPixel(out.result.info.v) = 3
              /\ out.result.info.v.DecodedSize =
                     Int64(out.result.info.v.Width * out.result.info.v.Height * 3)
        /\ out.result.info.v.ChromaSubsampling = ChromaSubsampling420 =>
              /\ calculateBytesPerPixel(out.result.info.v) = 2
              /\ out.result.info.v.DecodedSize =
                     Int64(out.result.info.v.Width * out.result.info.v.Height * 2)


(***************************************************************************)
(* detectPNGICCProfile pass by pass over sequences of chunks               *)
(***************************************************************************)

\* The largest number of chunks behind the signature
MaxChunks == 2

\* "tEXt"
TextTEXt == <<116, 69, 88, 116>>

\* A chunk as a file may hold it: the length field says the length of the data, one
\* more, or 2^32 - 4 or 2^32 - 1; the CRC is there or the file ends before it.
RawChunks ==
    {length \o chunkType \o body \o crc :
        chunkType \in {TextTEXt, TextICCP, TextIEND},
        body \in {<<>>, <<65, 0>>},
        length \in {BE32(0), BE32(2), BE32(3), <<255, 255, 255, 252>>, <<255, 255, 255, 255>>},
        crc \in {<<>>, BE32(0)}}

RECURSIVE ChunkSeqs(_)
\* The concatenations of k chunks at most
ChunkSeqs(k) ==
    IF k = 0 THEN {<<>>}
    ELSE ChunkSeqs(k - 1) \cup {s \o c : s \in ChunkSeqs(k - 1), c \in RawChunks}

InitChunks ==
    /\ pc = "walk"
    /\ data \in {PNGSignature \o s : s \in ChunkSeqs(MaxChunks)}
    /\ w = WalkerFrame("detectPNGICCProfile", 0)
    /\ file = Unused
    /\ imageInfo = Unused
    /\ out = Unused

\* r.Seek(8, 0), then one pass of the loop of detectPNGICCProfile at a time
DetectPNGICCProfile ==
    /\ pc = "walk"
    /\ w.fn = "detectPNGICCProfile"
    /\ Running(w)
    /\ w' = detectPNGICCProfileStep(data, w)
    /\ pc' = WalkPc(w')
    /\ out' = WalkOut(w')
    /\ UNCHANGED <<data, file, imageInfo>>

NextChunks == DetectPNGICCProfile

SpecChunks == InitChunks /\ [][NextChunks]_vars

\* The chunk header at offset p of d, when all of it is there
HeaderAt(d, p) ==
    [whole |-> ReadOK(d, p, 8),
     length |-> IF ReadOK(d, p, 8) THEN Uint32(ReadBytes(d, p, 4)) ELSE Uint32(BE32(0)),
     chunkType |-> IF ReadOK(d, p, 8) THEN ReadBytes(d, p + 4, 4) ELSE <<>>]

\* The chunk whose header is at p holds all the bytes it declares, data and CRC
\* aside: a declared length of 2^31 or more passes any stream here.
DataWhole(d, p) ==
    /\ U32Small(HeaderAt(d, p).length)
    /\ ReadOK(d, p + 8, U32Int(HeaderAt(d, p).length))

RECURSIVE FirstICCP(_, _)
\* Following the chunks of d from the header at p, each one 12 + length bytes after
\* the one before: the offset of the first iCCP header met before an IEND header and
\* before the end of the stream, or -1.
FirstICCP(d, p) ==
    IF ~HeaderAt(d, p).whole THEN -1
    ELSE IF HeaderAt(d, p).chunkType = TextICCP THEN p
    ELSE IF HeaderAt(d, p).chunkType = TextIEND THEN -1
    ELSE IF ~U32Small(HeaderAt(d, p).length) THEN -1
    ELSE IF p + 12 + U32Int(HeaderAt(d, p).length) > Len(d) THEN -1
    ELSE FirstICCP(d, p + 12 + U32Int(HeaderAt(d, p).length))

\* C23: detectPNGICCProfile returns the declared length bytes behind the header of
\* the first iCCP chunk, when the chunks from offset 8 lead to that header before an
\* IEND chunk and before the end of the stream and the stream holds all of those
\* bytes; in every other case it returns no profile and "sRGB".
C23_FirstICCPChunkOrNothing ==
    pc = "done" =>
        IF FirstICCP(data, 8) >= 0 /\ DataWhole(data, FirstICCP(data, 8))
        THEN /\ w.pc = "return"
             /\ ~out.nil
             /\ out.icc = ReadBytes(data, FirstICCP(data, 8) + 8,
                                    U32Int(HeaderAt(data, FirstICCP(data, 8)).length))
        ELSE /\ w.pc = "return"
             /\ out = NoProfile

\* C26: a pass of detectPNGICCProfile over the header, at offset h, of a chunk that
\* is neither iCCP nor IEND and declares the length L leaves the cursor at
\* h + 12 + L, for every L below 2^32: the next header is read there, and no header
\* is read when the stream does not hold 8 bytes from h + 12 + L on.
C26_SkipIsLengthPlusFour ==
    [][(/\ w.pc = "loop"
        /\ HeaderAt(data, w.pos).whole
        /\ HeaderAt(data, w.pos).chunkType \notin {TextICCP, TextIEND}) =>
           IF /\ U32Small(HeaderAt(data, w.pos).length)
              /\ ReadOK(data, w.pos + 12 + U32Int(HeaderAt(data, w.pos).length), 8)
           THEN w'.pos = w.pos + 12 + U32Int(HeaderAt(data, w.pos).length)
           ELSE ~ReadOK(data, w'.pos, 8)]_vars


(***************************************************************************)
(* pixi boxes at the three places a stream may hold them: at the top       *)
(* level beside meta, in meta beside iprp, and in ipco.  imageInfo keeps   *)
(* the choice the stream was built from.                                   *)
(***************************************************************************)

\* pixi payloads: two bytes; three bytes; a channel count of 0; three channels
PixiPayloads == <<<<0, 3>>, <<0, 3, 10>>, <<0, 0, 12>>, <<0, 3, 16, 16, 16>>>>

\* No box for 0, the pixi box with the i-th payload otherwise
PixiBox(i) ==
    IF i = 0 THEN <<>> ELSE Box(TextPixi, ExactSize(PixiPayloads[i]), PixiPayloads[i])

PixiChoices == [before : 0..4, direct : 0..4, nested : 0..4, after : 0..4]

PixiStream(c) ==
    LET ipco == Box(TextIpco, ExactSize(PixiBox(c.nested)), PixiBox(c.nested))
        iprp == Box(TextIprp, ExactSize(ipco), ipco)
        meta == BE32(0) \o PixiBox(c.direct) \o iprp
    IN FtypBox \o PixiBox(c.before) \o Box(TextMeta, ExactSize(meta), meta) \o PixiBox(c.after)
           \o Box(TextFree, ExactSize(BE32(0)), BE32(0))

InitPixi ==
    /\ pc = "walk"
    /\ imageInfo \in PixiChoices
    /\ data = PixiStream(imageInfo)
    /\ w = HEIFFrame(0)
    /\ file = Unused
    /\ out = Unused

SpecPixi == InitPixi /\ [][NextHEIF]_vars

\* The bit depth after a pixi box at the top level, and after one in ipco
AfterTopLevelPixi(depth, i) ==
    IF i # 0 /\ Len(PixiPayloads[i]) >= 3 THEN PixiPayloads[i][3] ELSE depth

AfterIpcoPixi(depth, i) ==
    IF /\ i # 0 /\ Len(PixiPayloads[i]) >= 3 /\ PixiPayloads[i][2] > 0
       /\ Len(PixiPayloads[i]) >= 2 + PixiPayloads[i][2]
    THEN PixiPayloads[i][3] ELSE depth

\* C24 (as amended): a pixi box at the top level of the stream, beside the meta box
\* and not inside it, with a payload of 3 bytes or more sets the bit depth to payload
\* byte 2, whatever its channel count; a pixi box that is a direct child of the meta
\* box changes nothing.
C24_TopLevelPixiSetsBitDepth ==
    pc = "done" /\ imageInfo \in PixiChoices =>
        /\ w.pc = "return"
        /\ w.ret.BitDepth =
              AfterTopLevelPixi(AfterIpcoPixi(AfterTopLevelPixi(8, imageInfo.before),
                                              imageInfo.nested),
                                imageInfo.after)

\* A top-level pixi box with a channel count of 0 has set 12; the pixi box in meta
\* said 16.
C24_Witness ==
    /\ pc = "done"
    /\ imageInfo = [before |-> 3, direct |-> 4, nested |-> 0, after |-> 0]
    /\ w.ret.BitDepth = 12

\* C24: a pixi box that is a direct child of the meta box, with a payload of 3 bytes
\* or more and no pixi box after it, sets the bit depth to payload byte 2.
C24_PixiUnderMetaSetsBitDepth ==
    (/\ pc = "done" /\ imageInfo \in PixiChoices
     /\ imageInfo.direct # 0 /\ Len(PixiPayloads[imageInfo.direct]) >= 3
     /\ imageInfo.nested = 0 /\ imageInfo.after = 0) =>
        w.ret.BitDepth = PixiPayloads[imageInfo.direct][3]


\* C25: the record of a WebP stream whose first FourCC is neither "VP8L" nor "VP8 "
\* has chroma subsampling Unknown and is not classified as Lossy.
C25_ExtendedWebPIsNotLossy ==
    (/\ RecordFrom({"analyzeImage"})
     /\ out.result.info.v.Format = "webp"
     /\ Len(file.bytes) >= 16
     /\ SubSeq(file.bytes, 13, 16) \notin {TextVP8L, TextVP8}) =>
        /\ detectWebPFormat(file.bytes) = <<FALSE, ChromaSubsamplingUnknown>>
        /\ out.result.info.v.ChromaSubsampling = ChromaSubsamplingUnknown
        /\ out.result.info.v.CompressionType # CompressionLossy


(***************************************************************************)
(* Every walker, one pass of one loop at a time, on streams built from     *)
(* pieces whose length fields are too small, exact, too large and          *)
(* wrapping.  A walker that can take a pass takes it: nothing else runs    *)
(* in the goroutine that called it.                                        *)
(***************************************************************************)

\* The sequences of at most k pieces
RECURSIVE PieceSeqs(_, _)
PieceSeqs(pieces, k) ==
    IF k = 0 THEN {<<>>}
    ELSE {<<>>} \cup {p \o t : p \in pieces, t \in PieceSeqs(pieces, k - 1)}

\* SOF0, APP0 and APP2 segments of two bytes under every length field, EOI, and
\* pieces that are no segment
LoopSegments ==
    {Segment(m, l, <<0, 0>>) : m \in {192, 224, MarkerAPP2}, l \in LengthFields(<<0, 0>>)}
    \cup {<<255, MarkerEOI>>, <<255, 224, 0>>}

\* tEXt, iCCP and IEND chunks of two bytes and a CRC, declaring 0, 2, 3, 2^32 - 4 and
\* 2^32 - 1 bytes
LoopChunks ==
    {l \o chunkType \o <<65, 0>> \o BE32(0) :
        l \in {BE32(0), BE32(2), BE32(3), <<255, 255, 255, 252>>, <<255, 255, 255, 255>>},
        chunkType \in {TextTEXt, TextICCP, TextIEND}}

\* The i-th of the size fields a box is generated with
SizeField(body, i) ==
    <<BE32(7), BE32(Len(body) + 7), ExactSize(body), BE32(Len(body) + 9),
      <<255, 255, 255, 255>>>>[i]

\* meta, iprp and ipco around the boxes body, with the size fields sizes[1..3]
Nested(sizes, body) ==
    LET ipco == Box(TextIpco, SizeField(body, sizes[3]), body)
        iprp == Box(TextIprp, SizeField(ipco, sizes[2]), ipco)
    IN Box(TextMeta, SizeField(BE32(0) \o iprp, sizes[1]), BE32(0) \o iprp)

\* One size field of the three is free, the others are exact.
OneSizeOff == UNION {{<<i, 3, 3>>, <<3, i, 3>>, <<3, 3, i>>} : i \in 1..5}

LoopStreams ==
    [detectPNGICCProfile |-> {PNGSignature \o s : s \in PieceSeqs(LoopChunks, MaxChunks)},
     detectJPEGSubsampling |-> {SOI \o s : s \in PieceSeqs(LoopSegments, MaxSegments)},
     is12BitJPEG |-> {SOI \o s : s \in PieceSeqs(LoopSegments, MaxSegments)},
     detectJPEGICCProfile |-> {SOI \o s : s \in PieceSeqs(LoopSegments, MaxSegments)},
     parseHEIFMetadata |->
         {FtypBox \o s : s \in BoxSeqs(MaxBoxes)}
         \cup {FtypBox \o Nested(sizes, s) : sizes \in OneSizeOff, s \in BoxSeqs(MaxBoxes)}
         \cup EdgeCaseStreams]

InitWalkers ==
    /\ pc = "walk"
    /\ \E fn \in DOMAIN LoopStreams :
          /\ data \in LoopStreams[fn]
          /\ w = IF fn = "parseHEIFMetadata" THEN HEIFFrame(0) ELSE WalkerFrame(fn, 0)
    /\ file = Unused
    /\ imageInfo = Unused
    /\ out = Unused

NextWalkers == NextChunks \/ NextJPEG \/ NextHEIF

SpecWalkers == InitWalkers /\ [][NextWalkers]_vars /\ WF_vars(NextWalkers)

\* C27: on every stream every walker comes to an end: the chunk loop of
\* detectPNGICCProfile, the marker loops of detectJPEGSubsampling, is12BitJPEG and
\* detectJPEGICCProfile, and the box loops of parseHEIFMetadata, parseMetaBox,
\* parseIprpBox and parseIpcoBox return (or panic) after finitely many passes.
C27_EveryWalkerTerminates == <>(pc = "done" /\ ~Running(w))

\* detectJPEGSubsampling has returned on an APP0 segment whose length field is 0,
\* after seeking 2 bytes backwards.
C27_Witness ==
    /\ pc = "done"
    /\ data = SOI \o Segment(224, 0, <<0, 0>>) \o <<255, MarkerEOI>>
    /\ w.fn = "detectJPEGSubsampling"
    /\ w.pc = "return"


(***************************************************************************)
(* processBatch called with any list, the empty one and lists shorter than *)
(* the pool included.  The scheduler runs a goroutine that can take a      *)
(* step.                                                                   *)
(***************************************************************************)

PoolLists == UNION {[1..n -> {f.name : f \in BatchFiles}] : n \in 0..MaxFiles}

InitPool ==
    /\ pc = "send"
    /\ file \in PoolLists
    /\ data = [jobs |-> <<>>, closed |-> FALSE]
    /\ \E workers \in 0..MaxWorkers, numCPU \in 1..MaxWorkers :
          w = Pool(IF workers <= 0 THEN numCPU ELSE workers)
    /\ imageInfo = [results |-> <<>>, closed |-> FALSE]
    /\ out = [i |-> 0, resultMap |-> <<>>, arrived |-> <<>>]

SpecPool == InitPool /\ [][NextBatch]_vars /\ WF_vars(NextBatch)

\* C28: processBatch always returns: every worker has left its loop, results has
\* been closed after that, and the collector has received one result for each of
\* the n job indexes.
C28_ProcessBatchAlwaysReturns ==
    <>(/\ pc = "returned"
       /\ \A k \in DOMAIN w : w[k].pc = "done"
       /\ imageInfo.closed
       /\ Len(out.arrived) = Len(file)
       /\ \A i \in 0..(Len(file) - 1) : Occurrences(out.arrived, i) = 1)


(***************************************************************************)
(* parseHEIFMetadata on two streams side by side: data and w are the       *)
(* first stream and its walk, file and imageInfo the second.  The streams  *)
(* hold a box at or just before offset 16384.                              *)
(***************************************************************************)

\* ftyp and a free box of zeroes that ends at offset k
PaddedTo(k) ==
    FtypBox \o Box(TextFree, BE32(k - Len(FtypBox)), Zeros(k - Len(FtypBox) - 8))

\* How many bytes before offset 16384 the box starts: at the offset; with its header
\* inside; with 3 bytes of payload inside; with 8 bytes of payload inside
Gaps == {0, 8, 11, 16}

BoundaryBoxes ==
    {Box(TextPixi, ExactSize(PixiBody(10)), PixiBody(10)),
     Box(TextColr, ExactSize(ColrBody(9, 16)), ColrBody(9, 16)),
     Box(TextAuxC, ExactSize(AuxCBody), AuxCBody)}

\* What follows the box
Tails == {<<>>, Box(TextColr, ExactSize(ColrBody(12, 18)), ColrBody(12, 18))}

LongStreams ==
    {PaddedTo(HeaderReadSize - gap) \o b \o t : gap \in Gaps, b \in BoundaryBoxes, t \in Tails}

InitPair ==
    /\ pc = "walk"
    /\ data \in LongStreams
    /\ file \in LongStreams
    /\ w = HEIFFrame(0)
    /\ imageInfo = HEIFFrame(0)
    /\ out = Unused

\* One pass of a loop of the walk over the first stream
WalkFirst ==
    /\ pc = "walk"
    /\ Running(w)
    /\ w' = HEIFStep(data, w)
    /\ pc' = IF Running(w') \/ Running(imageInfo) THEN "walk" ELSE "done"
    /\ UNCHANGED <<data, file, imageInfo, out>>

\* One pass of a loop of the walk over the second stream
WalkSecond ==
    /\ pc = "walk"
    /\ Running(imageInfo)
    /\ imageInfo' = HEIFStep(file, imageInfo)
    /\ pc' = IF Running(w) \/ Running(imageInfo') THEN "walk" ELSE "done"
    /\ UNCHANGED <<data, file, w, out>>

NextPair == WalkFirst \/ WalkSecond

SpecPair == InitPair /\ [][NextPair]_vars

\* The first 16 KiB of a stream
First16KiB(d) == SubSeq(d, 1, Min(Len(d), 16384))

\* C29: the result of parseHEIFMetadata depends on the first 16384 bytes of the
\* stream alone: two streams with the same first 16 KiB get the same result, and a
\* stream gets the result of its first 16 KiB taken alone, whatever boxes start at
\* offset 16384 or behind it.
C29_OnlyFirst16KiBCounts ==
    pc = "done" =>
        /\ w.pc = "return" /\ imageInfo.pc = "return"
        /\ First16KiB(data) = First16KiB(file) => w.ret = imageInfo.ret
        /\ w.ret = RunWalker(First16KiB(data), HEIFFrame(0)).ret

\* Two streams with the same first 16 KiB, a pixi box at offset 16384 in one and an
\* auxC box and a colr box there in the other: both keep the defaults.
C29_Witness ==
    /\ pc = "done"
    /\ data = PaddedTo(16384) \o Box(TextPixi, ExactSize(PixiBody(10)), PixiBody(10))
    /\ file = PaddedTo(16384) \o Box(TextAuxC, ExactSize(AuxCBody), AuxCBody)
                  \o Box(TextColr, ExactSize(ColrBody(12, 18)), ColrBody(12, 18))
    /\ w.ret = DefaultMeta
    /\ imageInfo.ret = DefaultMeta


(***************************************************************************)
(* parseHEIFMetadata over sequences of colr and auxC boxes, in ipco and at *)
(* the top level: the fields from pass to pass.                            *)
(***************************************************************************)

\* "urn:mpeg:hevc:2015:auxid:1" would be a depth map; any payload without the alpha
\* URN does: here the URN cut after "auxiliary:".
NoAlphaBody == SubSeq(TextAlphaURN, 1, 38) \o <<0>>

\* colr boxes for PQ, HLG, BT.709 transfer and an unspecified one, a colr box of type
\* "prof", auxC boxes with and without the alpha URN, a pixi box
FieldBoxes ==
    {Box(TextColr, ExactSize(ColrBody(nclx[1], nclx[2])), ColrBody(nclx[1], nclx[2])) :
        nclx \in {<<9, 16>>, <<9, 18>>, <<1, 1>>, <<2, 2>>}}
    \cup {Box(TextColr, ExactSize(<<112, 114, 111, 102, 0, 0, 0, 0>>),
              <<112, 114, 111, 102, 0, 0, 0, 0>>),
          Box(TextAuxC, ExactSize(AuxCBody), AuxCBody),
          Box(TextAuxC, ExactSize(NoAlphaBody), NoAlphaBody),
          Box(TextPixi, ExactSize(PixiBody(10)), PixiBody(10))}

FieldStreams(k) ==
    {HEIFContainer(s) : s \in PieceSeqs(FieldBoxes, k)}
    \cup {FtypBox \o s \o Box(TextFree, ExactSize(BE32(0)), BE32(0)) :
             s \in PieceSeqs(FieldBoxes, k)}

InitFields ==
    /\ pc = "walk"
    /\ data \in FieldStreams(MaxBoxes)
    /\ w = HEIFFrame(0)
    /\ file = Unused
    /\ imageInfo = Unused
    /\ out = Unused

SpecFields == InitFields /\ [][NextHEIF]_vars

\* The fields as they stand in the walk s: meta, and what is returned in the end
FieldsOf(s) == IF s.pc = "return" THEN s.ret ELSE s.meta

\* C30: no pass of a box loop of parseHEIFMetadata resets HasAlpha to false or takes
\* HDRType from PQ or HLG back to None, and ColorModel stays YCbCr and
\* ChromaSubsampling 4:2:0 from the first pass to the return.
C30_FieldsOnlyLeaveTheirDefaults ==
    [][/\ FieldsOf(w).HasAlpha => FieldsOf(w').HasAlpha
       /\ FieldsOf(w).HDRType \in {HDRPQ, HDRHLG} => FieldsOf(w').HDRType \in {HDRPQ, HDRHLG}
       /\ FieldsOf(w').ColorModel = ColorModelYCbCr
       /\ FieldsOf(w').ChromaSubsampling = ChromaSubsampling420]_vars

\* An auxC box with the alpha URN, then one without it, in ipco: HasAlpha is still
\* true at the return.
C30_Witness ==
    /\ pc = "done"
    /\ data = HEIFContainer(Box(TextAuxC, ExactSize(AuxCBody), AuxCBody)
                            \o Box(TextAuxC, ExactSize(NoAlphaBody), NoAlphaBody))
    /\ w.pc = "return"
    /\ w.ret.HasAlpha
    /\ w.ret.HDRType = HDRNone

====
